---- MODULE Spec2Model ----
(***************************************************************************)
(* Model of the STM ADB portal backend: the schedule service with its      *)
(* conflict checker, the attendance service with its duplicate guard, and  *)
(* the pagination metadata of the list operations.                         *)
(*                                                                         *)
(* The database is the set of rows of each table.  Every Prisma call is    *)
(* one atomic step; a request handler run to completion is one action in   *)
(* the sequential specifications, and one step per awaited Prisma call in  *)
(* the concurrent ones.                                                    *)
(*                                                                         *)
(* A time of day is a slot 0..DaySlots-1; a request carries it as a        *)
(* "HH:MM:SS" string, a JS Date is an instant counted in slots, and a      *)
(* @db.Time() column keeps the UTC time of day of the Date written to it.  *)
(***************************************************************************)
EXTENDS Integers, Sequences, FiniteSets

VARIABLES
    tz,                 \* server timezone: local time = UTC + tz (slots)
    now,                \* the clock, an instant in slots since the epoch
    schedules,          \* table schedule
    nextId,             \* autoincrement of schedule.id
    teacherAttendance,  \* table teacher_attendance
    studentAttendance,  \* table student_attendance
    attNextId,          \* autoincrement of the attendance tables
    tables,             \* the other listed tables: entity -> set of rows
    resp,               \* the last HTTP response sent
    obs,                \* what the last request met in the store (history)
    procs               \* requests in flight (concurrent specifications)

vars == <<tz, now, schedules, nextId, teacherAttendance, studentAttendance,
          attNextId, tables, resp, obs, procs>>

----------------------------------------------------------------------------
(* Bounds of the model *)

DaySlots == 3          \* slots in a day
MaxId == 2             \* schedule ids handed out
MaxPatchFields == 1    \* fields one update request changes
MaxTicks == 3          \* slots the clock runs on from the first day
MaxBulk == 1           \* records in one bulk request
MaxAtt == 3            \* attendance rows recorded in one run
MaxRows == 2           \* rows held by the listed tables together
MaxPage == 3           \* page numbers asked for
MaxLimit == 2          \* page sizes asked for
MaxUsers == 2          \* user accounts
RateLimitMax == 3       \* requests let through per window (config.rateLimit.max)
WindowSlots == 2        \* length of the limiter's window (config.rateLimit.windowMs)

(* Values of the requests *)

ABSENT == "absent"     \* a property the request does not carry (undefined)
NULL == "null"         \* JSON null

IdStr == <<"1", "2", "3", "4", "5", "6">>
TimeStr == <<"00:00:00", "01:00:00", "02:00:00", "03:00:00", "04:00:00">>

UTC == 0                \* the documented default timezone of the server
TZOffsets == {UTC, 1}
Teachers == {1, 2}
Classes == {1, 2}
Subjects == {1}
Days == {"Senin", "Selasa"}
Rooms == {"R1"}
Slots == 0 .. (DaySlots - 1)

\* BigInt(str) of a digit string, and BigInt.prototype.toString()
BigInt(s) == CHOOSE n \in 1 .. Len(IdStr) : IdStr[n] = s
toString(n) == IdStr[n]

IdStrs(S) == {toString(n) : n \in S}
TimeStrs == {TimeStr[n + 1] : n \in Slots}

\* hours of an "HH:MM:SS" string
ParseHMS(s) == CHOOSE n \in 0 .. (Len(TimeStr) - 1) : TimeStr[n + 1] = s

\* new Date(`${today}T${time}`): no zone designator, so the string is read as
\* local time; the instant is the local reading minus the zone offset.
TodayUTC == now \div DaySlots
LocalDate(time) == TodayUTC * DaySlots + ParseHMS(time) - tz

\* new Date(`1970-01-01T${time}.000Z`): read as UTC
UTCDate(time) == ParseHMS(time)

\* a @db.Time() column keeps the UTC time of day of a Date
DbTime(date) == date % DaySlots

\* date.toISOString().split('T')[1].split('.')[0]
ToISOTime(date) == TimeStr[(date % DaySlots) + 1]

----------------------------------------------------------------------------
(* scheduleService *)

serializeSchedule(row) ==
    [id |-> toString(row.id),
     class_id |-> toString(row.class_id),
     subject_id |-> toString(row.subject_id),
     teacher_id |-> toString(row.teacher_id),
     day_of_week |-> row.day_of_week,
     start_time |-> ToISOTime(row.start_time),
     end_time |-> ToISOTime(row.end_time),
     room |-> row.room]

\* TimeClause without its third clause (a stored row inside the candidate)
TimeClauseNoInside(row, start_time, end_time) ==
    \/ (row.start_time <= start_time /\ row.end_time > start_time)
    \/ (row.start_time < end_time /\ row.end_time >= end_time)

\* the OR of three AND clauses of whereClause, on one stored row
TimeClause(row, start_time, end_time) ==
    \/ (row.start_time <= start_time /\ row.end_time > start_time)
    \/ (row.start_time < end_time /\ row.end_time >= end_time)
    \/ (row.start_time >= start_time /\ row.end_time <= end_time)

\* whereClause: day, time clauses, and the excluded id when one is given
WhereClause(row, data, excludeId) ==
    /\ row.day_of_week = data.day_of_week
    /\ TimeClause(row, DbTime(data.start_time), DbTime(data.end_time))
    /\ (excludeId # ABSENT => row.id # BigInt(excludeId))

\* the teacher query filtering on the class instead of the teacher
teacherConflictsByClass(store, data, excludeId) ==
    {row \in store : WhereClause(row, data, excludeId)
                     /\ row.class_id = data.class_id}

teacherConflicts(store, data, excludeId) ==
    {row \in store : WhereClause(row, data, excludeId)
                     /\ row.teacher_id = data.teacher_id}

classConflicts(store, data, excludeId) ==
    {row \in store : WhereClause(row, data, excludeId)
                     /\ row.class_id = data.class_id}

roomConflicts(store, data, excludeId) ==
    {row \in store : WhereClause(row, data, excludeId)
                     /\ row.room = data.room}

\* checkScheduleConflicts without its room query
checkTeacherAndClassOnly(store, data, excludeId) ==
    IF teacherConflicts(store, data, excludeId) # {} THEN "Teacher"
    ELSE IF classConflicts(store, data, excludeId) # {} THEN "Class"
    ELSE "none"

\* the kind of conflict thrown, or "none" when the check returns true
checkScheduleConflicts(store, data, excludeId) ==
    IF teacherConflicts(store, data, excludeId) # {} THEN "Teacher"
    ELSE IF classConflicts(store, data, excludeId) # {} THEN "Class"
    ELSE IF data.room # NULL /\ roomConflicts(store, data, excludeId) # {}
         THEN "Room"
    ELSE "none"

\* the conflict check sees the row as it would be stored
Candidate(class_id, teacher_id, day_of_week, start_time, end_time, room) ==
    [class_id |-> class_id, teacher_id |-> teacher_id,
     day_of_week |-> day_of_week, start_time |-> start_time,
     end_time |-> end_time, room |-> room]

ScheduleById(store, id) == {row \in store : row.id = id}

(* The overlap of section 4.1: [s1,e1) and [s2,e2) overlap iff s1 < e2 and  *)
(* s2 < e1.  Stated apart from the code; the history variable obs records  *)
(* it for the request just handled, with the body of a create that was     *)
(* answered 201.                                                           *)
Overlap(s1, e1, s2, e2) == s1 < e2 /\ s2 < e1

Shares(kind, row, data) ==
    CASE kind = "Teacher" -> row.teacher_id = data.teacher_id
      [] kind = "Class" -> row.class_id = data.class_id
      [] kind = "Room" -> data.room # NULL /\ row.room = data.room

Kinds == {"Teacher", "Class", "Room"}

\* the stored rows, other than `except`, that overlap data and share `kind`
Colliding(store, data, except, kind) ==
    {row \in store :
        /\ row.id # except
        /\ row.day_of_week = data.day_of_week
        /\ Shares(kind, row, data)
        /\ Overlap(row.start_time, row.end_time,
                   DbTime(data.start_time), DbTime(data.end_time))}

CollidingKinds(store, data, except) ==
    {kind \in Kinds : Colliding(store, data, except, kind) # {}}

\* rows of the day of data, other than `except`
OtherSameDay(store, data, except) ==
    {row \in store : row.id # except /\ row.day_of_week = data.day_of_week}

Observe(store, data, except, after, request) ==
    [request |-> request,
     kinds |-> CollidingKinds(store, data, except),
     changed |-> (after # store),
     selected |->
        {row.id : row \in
            {r \in OtherSameDay(store, data, except) :
                TimeClause(r, DbTime(data.start_time), DbTime(data.end_time))}},
     overlapping |->
        {row.id : row \in
            {r \in OtherSameDay(store, data, except) :
                Overlap(r.start_time, r.end_time,
                        DbTime(data.start_time), DbTime(data.end_time))}}]

NoObs == [request |-> NULL, kinds |-> {}, changed |-> FALSE, selected |-> {}, overlapping |-> {}]

Response(op, status, conflict, body) ==
    [op |-> op, status |-> status, conflict |-> conflict, body |-> body]

CreateBodies ==
    [class_id : IdStrs(Classes), subject_id : IdStrs(Subjects),
     teacher_id : IdStrs(Teachers), day_of_week : Days,
     start_time : TimeStrs, end_time : TimeStrs, room : Rooms \cup {NULL}]

\* what createSchedule hands to checkScheduleConflicts: the body with
\* start_time and end_time replaced by startDateTime and endDateTime
CreateData(body) ==
    Candidate(BigInt(body.class_id), BigInt(body.teacher_id),
              body.day_of_week, LocalDate(body.start_time),
              LocalDate(body.end_time), body.room)

\* the row prisma.schedule.create stores under the next id
CreateRow(body, id) ==
    [id |-> id,
     class_id |-> BigInt(body.class_id),
     subject_id |-> BigInt(body.subject_id),
     teacher_id |-> BigInt(body.teacher_id),
     day_of_week |-> body.day_of_week,
     start_time |-> DbTime(LocalDate(body.start_time)),
     end_time |-> DbTime(LocalDate(body.end_time)),
     room |-> body.room]

\* POST /api/schedules: controller createSchedule over service createSchedule
createSchedule(body) ==
    LET data == CreateData(body)
        conflict == checkScheduleConflicts(schedules, data, ABSENT)
        row == CreateRow(body, nextId)
        after == IF conflict = "none" THEN schedules \cup {row} ELSE schedules
    IN  /\ nextId <= MaxId
        /\ schedules' = after
        /\ nextId' = IF conflict = "none" THEN nextId + 1 ELSE nextId
        /\ resp' = IF conflict = "none"
                   THEN Response("createSchedule", 201, "none",
                                 serializeSchedule(row))
                   ELSE Response("createSchedule", 409, conflict, NULL)
        /\ obs' = Observe(schedules, data, 0, after,
                           IF conflict = "none" THEN body ELSE NULL)

CreateSchedule ==
    /\ \E body \in CreateBodies : createSchedule(body)
    /\ UNCHANGED <<tz, now, teacherAttendance, studentAttendance, attNextId,
                   tables, procs>>

PatchFields == {"class_id", "subject_id", "teacher_id", "day_of_week",
                "start_time", "end_time", "room"}

Present(body) == {f \in PatchFields : body[f] # ABSENT}

FieldValues(f) ==
    CASE f = "class_id" -> IdStrs(Classes)
      [] f = "subject_id" -> IdStrs(Subjects)
      [] f = "teacher_id" -> IdStrs(Teachers)
      [] f = "day_of_week" -> Days
      [] f = "start_time" -> TimeStrs
      [] f = "end_time" -> TimeStrs
      [] f = "room" -> Rooms \cup {NULL}

EmptyBody == [f \in PatchFields |-> ABSENT]

RECURSIVE BodiesWith(_)
BodiesWith(n) ==
    IF n = 0 THEN {EmptyBody}
    ELSE LET less == BodiesWith(n - 1)
         IN  less \cup {[body EXCEPT ![f] = v] :
                            <<body, f, v>> \in
                                {<<b, g, w>> \in less \X PatchFields \X
                                     UNION {FieldValues(h) : h \in PatchFields} :
                                     w \in FieldValues(g)}}

UpdateBodies == BodiesWith(MaxPatchFields)

ScheduleIds == IdStrs(1 .. MaxId)

\* processedData spread over existingSchedule
Merged(existing, body) ==
    [id |-> existing.id,
     class_id |-> IF body.class_id # ABSENT THEN BigInt(body.class_id)
                  ELSE existing.class_id,
     subject_id |-> IF body.subject_id # ABSENT THEN BigInt(body.subject_id)
                    ELSE existing.subject_id,
     teacher_id |-> IF body.teacher_id # ABSENT THEN BigInt(body.teacher_id)
                    ELSE existing.teacher_id,
     day_of_week |-> IF body.day_of_week # ABSENT THEN body.day_of_week
                     ELSE existing.day_of_week,
     start_time |-> IF body.start_time # ABSENT THEN UTCDate(body.start_time)
                    ELSE existing.start_time,
     end_time |-> IF body.end_time # ABSENT THEN UTCDate(body.end_time)
                  ELSE existing.end_time,
     room |-> IF body.room # ABSENT THEN body.room ELSE existing.room]

\* the row after prisma.schedule.update({ data: processedData })
Stored(merged) ==
    [merged EXCEPT !.start_time = DbTime(merged.start_time),
                   !.end_time = DbTime(merged.end_time)]

\* PUT /api/schedules/:id: controller updateSchedule over service updateSchedule
updateSchedule(id, body) ==
    LET found == ScheduleById(schedules, BigInt(id))
    IN  IF found = {}
        THEN /\ resp' = Response("updateSchedule", 404, "none", NULL)
             /\ obs' = NoObs
             /\ UNCHANGED schedules
        ELSE LET existingSchedule == CHOOSE row \in found : TRUE
                 conflictCheckData == Merged(existingSchedule, body)
                 conflict == checkScheduleConflicts(schedules,
                                                    conflictCheckData, id)
                 updatedSchedule == Stored(conflictCheckData)
                 after == IF conflict = "none"
                          THEN (schedules \ found) \cup {updatedSchedule}
                          ELSE schedules
             IN  /\ schedules' = after
                 /\ resp' = IF conflict = "none"
                            THEN Response("updateSchedule", 200, "none",
                                          serializeSchedule(updatedSchedule))
                            ELSE Response("updateSchedule", 409, conflict,
                                          NULL)
                 /\ obs' = Observe(schedules, conflictCheckData,
                                   existingSchedule.id, after, NULL)

UpdateSchedule ==
    /\ \E id \in ScheduleIds, body \in UpdateBodies : updateSchedule(id, body)
    /\ UNCHANGED <<tz, now, nextId, teacherAttendance, studentAttendance,
                   attNextId, tables, procs>>

\* DELETE /api/schedules/:id.  The service's catch replaces every error,
\* 'Schedule not found' included, by 'Failed to delete schedule', which the
\* controller answers with 500.
deleteSchedule(id) ==
    LET found == ScheduleById(schedules, BigInt(id))
    IN  /\ schedules' = schedules \ found
        /\ resp' = IF found = {}
                   THEN Response("deleteSchedule", 500, "none", NULL)
                   ELSE Response("deleteSchedule", 200, "none", NULL)
        /\ obs' = NoObs

DeleteSchedule ==
    /\ \E id \in ScheduleIds : deleteSchedule(id)
    /\ UNCHANGED <<tz, now, nextId, teacherAttendance, studentAttendance,
                   attNextId, tables, procs>>

\* GET /api/schedules/:id.  The service's catch replaces 'Schedule not found'
\* by 'Failed to retrieve schedule', which the controller answers with 500.
getScheduleById(id) ==
    LET found == ScheduleById(schedules, BigInt(id))
    IN  /\ resp' = IF found = {}
                   THEN Response("getScheduleById", 500, "none", NULL)
                   ELSE Response("getScheduleById", 200, "none",
                                 serializeSchedule(CHOOSE row \in found : TRUE))
        /\ obs' = NoObs
        /\ UNCHANGED schedules

GetScheduleById ==
    /\ \E id \in ScheduleIds : getScheduleById(id)
    /\ UNCHANGED <<tz, now, nextId, teacherAttendance, studentAttendance,
                   attNextId, tables, procs>>

NoResponse == Response("none", 0, "none", NULL)

\* an empty database, the server started in some timezone
InitStore ==
    /\ schedules = {}
    /\ nextId = 1
    /\ teacherAttendance = {}
    /\ studentAttendance = {}
    /\ attNextId = 1
    /\ resp = NoResponse
    /\ obs = NoObs

InitSched ==
    /\ InitStore
    /\ tz = UTC
    /\ now = DaySlots
    /\ tables = <<>>
    /\ procs = <<>>

NextSched ==
    \/ CreateSchedule
    \/ UpdateSchedule
    \/ DeleteSchedule

\* schedule writes on a server in the default timezone, each request handled
\* to completion before the next
SpecSched == InitSched /\ [][NextSched]_vars

InitZone ==
    /\ InitStore
    /\ tz \in TZOffsets
    /\ now = DaySlots
    /\ tables = <<>>
    /\ procs = <<>>

NextZone ==
    \/ CreateSchedule
    \/ GetScheduleById
    \/ DeleteSchedule

\* schedules created, read and deleted on a server in any timezone
SpecZone == InitZone /\ [][NextZone]_vars

----------------------------------------------------------------------------
(* Concurrent createSchedule requests.  A handler gives up control at every  *)
(* await: the three findMany queries of checkScheduleConflicts and the       *)
(* create are separate steps, and the steps of other requests may fall       *)
(* between them.  A request in flight is                                     *)
(*   [pc, body, seen, id, status]                                            *)
(* where seen is the set of schedule ids its teacher query found stored.     *)

NumProcs == 2
Procs == 1 .. NumProcs

Idle == [pc |-> "idle", body |-> NULL, seen |-> {}, id |-> 0, status |-> 0]

RaceBodies == {body \in CreateBodies : body.day_of_week = "Senin"}

\* the request arrives: scheduleData = req.body
AtStart(p) ==
    /\ procs[p].pc = "idle"
    /\ \E body \in RaceBodies :
          procs' = [procs EXCEPT ![p] = [Idle EXCEPT !.pc = "teacher",
                                                     !.body = body]]
    /\ UNCHANGED <<schedules, nextId>>

\* await prisma.schedule.findMany (teacher conflicts)
AtTeacher(p) ==
    /\ procs[p].pc = "teacher"
    /\ LET found == teacherConflicts(schedules, CreateData(procs[p].body),
                                     ABSENT)
       IN  procs' = [procs EXCEPT
                ![p].seen = {row.id : row \in schedules},
                ![p].pc = IF found # {} THEN "done" ELSE "class",
                ![p].status = IF found # {} THEN 409 ELSE 0]
    /\ UNCHANGED <<schedules, nextId>>

\* await prisma.schedule.findMany (class conflicts)
AtClass(p) ==
    /\ procs[p].pc = "class"
    /\ LET found == classConflicts(schedules, CreateData(procs[p].body),
                                   ABSENT)
       IN  procs' = [procs EXCEPT
                ![p].pc = IF found # {} THEN "done"
                          ELSE IF procs[p].body.room # NULL THEN "room"
                          ELSE "create",
                ![p].status = IF found # {} THEN 409 ELSE 0]
    /\ UNCHANGED <<schedules, nextId>>

\* await prisma.schedule.findMany (room conflicts), when a room is given
AtRoom(p) ==
    /\ procs[p].pc = "room"
    /\ LET found == roomConflicts(schedules, CreateData(procs[p].body),
                                  ABSENT)
       IN  procs' = [procs EXCEPT
                ![p].pc = IF found # {} THEN "done" ELSE "create",
                ![p].status = IF found # {} THEN 409 ELSE 0]
    /\ UNCHANGED <<schedules, nextId>>

\* await prisma.schedule.create, then the 201 response
AtCreate(p) ==
    /\ procs[p].pc = "create"
    /\ schedules' = schedules \cup {CreateRow(procs[p].body, nextId)}
    /\ nextId' = nextId + 1
    /\ procs' = [procs EXCEPT ![p].pc = "done", ![p].id = nextId,
                              ![p].status = 201]

RaceRest == <<tz, now, teacherAttendance, studentAttendance, attNextId,
             tables, resp, obs>>

RaceStart == (\E p \in Procs : AtStart(p)) /\ UNCHANGED RaceRest

RaceTeacher == (\E p \in Procs : AtTeacher(p)) /\ UNCHANGED RaceRest

RaceClass == (\E p \in Procs : AtClass(p)) /\ UNCHANGED RaceRest

RaceRoom == (\E p \in Procs : AtRoom(p)) /\ UNCHANGED RaceRest

RaceCreate == (\E p \in Procs : AtCreate(p)) /\ UNCHANGED RaceRest

InitSchedRace ==
    /\ InitStore
    /\ tz = UTC
    /\ now = DaySlots
    /\ tables = <<>>
    /\ procs = [p \in Procs |-> Idle]

NextSchedRace ==
    \/ RaceStart
    \/ RaceTeacher
    \/ RaceClass
    \/ RaceRoom
    \/ RaceCreate

\* NumProcs createSchedule requests running concurrently on an empty table
SpecSchedRace == InitSchedRace /\ [][NextSchedRace]_vars

----------------------------------------------------------------------------
(* attendanceService and attendanceController *)

Statuses == {"Masuk", "Pulang"}
Roles == {"admin", "teacher", "student"}

\* table student: one student, enrolled in class 1
Students == {[id |-> 1, current_class_id |-> 1]}

\* ids the attendance routes are called with; the last one names no row
AttIds == IdStrs(Teachers \cup {Cardinality(Teachers) + 1})

Horizon == DaySlots + MaxTicks

\* an optional argument: <<>> when undefined, <<value>> otherwise
Undefined == <<>>
Some(value) == <<value>>

IsDigits(s) == \E n \in 1 .. Len(IdStr) : IdStr[n] = s

\* String(record), what BigInt() is given when handed an object
ObjectString == "[object Object]"

\* the midnight of the UTC day of instant t (setUTCHours for setHours)
StartOfUTCDay(t) == (t \div DaySlots) * DaySlots

\* today.setHours(0, 0, 0, 0): the local midnight at or before instant t
StartOfDay(t) == ((t + tz) \div DaySlots) * DaySlots - tz

\* tomorrow.setDate(tomorrow.getDate() + 1)
StartOfTomorrow(t) == StartOfDay(t) + DaySlots

\* findFirst with the lower end of the range excluded (gt for gte)
existingTeacherAttendanceAfterMidnight(teacher_id, status) ==
    {row \in teacherAttendance :
        /\ row.teacher_id = teacher_id
        /\ row.status = status
        /\ row.timestamp > StartOfDay(now)
        /\ row.timestamp < StartOfDay(now) + DaySlots}

\* findFirst on teacherAttendance: same teacher, same status, today
existingTeacherAttendance(teacher_id, status) ==
    {row \in teacherAttendance :
        /\ row.teacher_id = teacher_id
        /\ row.status = status
        /\ row.timestamp >= StartOfDay(now)
        /\ row.timestamp < StartOfTomorrow(now)}

\* findFirst on studentAttendance: same student, same status, today
existingStudentAttendance(student_id, status) ==
    {row \in studentAttendance :
        /\ row.student_id = student_id
        /\ row.status = status
        /\ row.timestamp >= StartOfDay(now)
        /\ row.timestamp < StartOfTomorrow(now)}

\* `${who} already recorded ${status.toLowerCase()} attendance today`
AlreadyRecorded(who, status) ==
    IF who = "Teacher"
    THEN IF status = "Masuk"
         THEN "Teacher already recorded masuk attendance today"
         ELSE "Teacher already recorded pulang attendance today"
    ELSE IF status = "Masuk"
         THEN "Student already recorded masuk attendance today"
         ELSE "Student already recorded pulang attendance today"

Thrown(message) == [error |-> message, rows |-> {}]
Created(row) == [error |-> "none", rows |-> {row}]

\* recordTeacherAttendance without the lookup of the teacher
recordTeacherAttendanceAnyone(teacherId, attendanceData, timestamp) ==
    IF attendanceData = Undefined THEN Thrown("TypeError")
    ELSE IF ~IsDigits(teacherId) THEN Thrown("SyntaxError")
    ELSE IF existingTeacherAttendance(BigInt(teacherId),
                                      attendanceData[1].status) # {}
         THEN Thrown(AlreadyRecorded("Teacher", attendanceData[1].status))
    ELSE Created([id |-> attNextId,
                  teacher_id |-> BigInt(teacherId),
                  timestamp |-> timestamp,
                  status |-> attendanceData[1].status])

\* service recordTeacherAttendance(teacherId, attendanceData); the row is
\* stamped `timestamp`, the clock when prisma.teacherAttendance.create runs
recordTeacherAttendance(teacherId, attendanceData, timestamp) ==
    IF attendanceData = Undefined THEN Thrown("TypeError")
    ELSE IF ~IsDigits(teacherId) THEN Thrown("SyntaxError")
    ELSE IF BigInt(teacherId) \notin Teachers THEN Thrown("Teacher not found")
    ELSE IF existingTeacherAttendance(BigInt(teacherId),
                                      attendanceData[1].status) # {}
         THEN Thrown(AlreadyRecorded("Teacher", attendanceData[1].status))
    ELSE Created([id |-> attNextId,
                  teacher_id |-> BigInt(teacherId),
                  timestamp |-> timestamp,
                  status |-> attendanceData[1].status])

\* student.class_id: the student rows carry current_class_id and no class_id,
\* so the read yields undefined, which equals no class id
NoClass == 0
ClassIdOf(student) ==
    IF "class_id" \in DOMAIN student THEN student["class_id"] ELSE NoClass

\* service recordStudentAttendance(studentId, scheduleId, attendanceData)
recordStudentAttendance(studentId, scheduleId, attendanceData, timestamp) ==
    IF attendanceData = Undefined THEN Thrown("TypeError")
    ELSE IF ~IsDigits(studentId) THEN Thrown("SyntaxError")
    ELSE IF {st \in Students : st.id = BigInt(studentId)} = {}
         THEN Thrown("Student not found")
    ELSE IF scheduleId = Undefined THEN Thrown("TypeError")
    ELSE IF ScheduleById(schedules, BigInt(scheduleId[1])) = {}
         THEN Thrown("Schedule not found")
    ELSE LET student == CHOOSE st \in Students : st.id = BigInt(studentId)
             schedule == CHOOSE row \in schedules :
                            row.id = BigInt(scheduleId[1])
         IN  IF ClassIdOf(student) # schedule.class_id
             THEN Thrown("Student does not belong to this class")
             ELSE IF existingStudentAttendance(student.id,
                                               attendanceData[1].status) # {}
                  THEN Thrown(AlreadyRecorded("Student",
                                              attendanceData[1].status))
             ELSE Created([id |-> attNextId,
                           student_id |-> student.id,
                           timestamp |-> timestamp,
                           status |-> attendanceData[1].status])

serializeTeacherAttendance(row) ==
    [id |-> toString(row.id), teacher_id |-> toString(row.teacher_id),
     timestamp |-> row.timestamp, status |-> row.status]

serializeStudentAttendance(row) ==
    [id |-> toString(row.id), student_id |-> toString(row.student_id),
     timestamp |-> row.timestamp, status |-> row.status]

AttResponse(op, status, message, body) ==
    [op |-> op, status |-> status, conflict |-> "none", message |-> message,
     body |-> body]

(* The calendar day of an instant on the server's local calendar, and what *)
(* a recording request met: stated apart from the code, kept in obs.       *)
LocalDay(t) == (t + tz) \div DaySlots

SameDayRecords(table, who, id, status, t) ==
    {row \in table : /\ row[who] = id
                     /\ row.status = status
                     /\ LocalDay(row.timestamp) = LocalDay(t)}

AttObserve(id, status, known, before, after, beforeS, afterS) ==
    [request |-> [id |-> id, status |-> status],
     known |-> known,
     today |-> LocalDay(now),
     recorded |-> IF known /\ IsDigits(id)
                  THEN SameDayRecords(before, "teacher_id", BigInt(id),
                                      status, now) # {}
                  ELSE FALSE,
     added |-> after \ before,
     removed |-> before \ after,
     changed |-> (after # before \/ afterS # beforeS)]

\* the clock after `dt` more slots, within the horizon of the model
Later == {t \in {now, now + 1} : t <= Horizon}

\* POST /api/attendance/record/teacher/:teacherId
RecordTeacherAttendance ==
    /\ attNextId <= MaxAtt
    /\ \E teacherId \in AttIds, status \in Statuses, t \in Later :
          LET got == recordTeacherAttendance(teacherId,
                                             Some([status |-> status]), t)
          IN  /\ teacherAttendance' = teacherAttendance \cup got.rows
              /\ attNextId' = attNextId + Cardinality(got.rows)
              /\ now' = IF got.rows # {} THEN t ELSE now
              /\ resp' = IF got.error = "none"
                         THEN AttResponse("recordTeacherAttendance", 201,
                                  "Teacher attendance recorded successfully",
                                  serializeTeacherAttendance(
                                      CHOOSE row \in got.rows : TRUE))
                         ELSE AttResponse("recordTeacherAttendance", 400,
                                          got.error, NULL)
              /\ obs' = AttObserve(teacherId, status,
                                   IsDigits(teacherId)
                                       /\ BigInt(teacherId) \in Teachers,
                                   teacherAttendance, teacherAttendance',
                                   studentAttendance, studentAttendance)
    /\ UNCHANGED <<tz, schedules, nextId, studentAttendance, tables, procs>>

\* controller recordStudentAttendance: every error of the service is
\* answered 400
AnswerRecordStudentAttendance(studentId, scheduleId, status, t) ==
    LET got == recordStudentAttendance(studentId, scheduleId,
                                       Some([status |-> status]), t)
    IN  /\ studentAttendance' = studentAttendance \cup got.rows
        /\ attNextId' = attNextId + Cardinality(got.rows)
        /\ now' = IF got.rows # {} THEN t ELSE now
        /\ resp' = IF got.error = "none"
                   THEN AttResponse("recordStudentAttendance", 201,
                            "Student attendance recorded successfully",
                            serializeStudentAttendance(
                                CHOOSE row \in got.rows : TRUE))
                   ELSE AttResponse("recordStudentAttendance", 400,
                                    got.error, NULL)
        /\ obs' = AttObserve(studentId, status, FALSE,
                             teacherAttendance, teacherAttendance,
                             studentAttendance, studentAttendance')

\* POST /api/attendance/record/student/:studentId
RecordStudentAttendance ==
    /\ attNextId <= MaxAtt
    /\ \E studentId \in AttIds, status \in Statuses, t \in Later,
          scheduleId \in {Undefined} \cup {Some(id) : id \in ScheduleIds} :
          AnswerRecordStudentAttendance(studentId, scheduleId, status, t)
    /\ UNCHANGED <<tz, schedules, nextId, teacherAttendance, tables, procs>>

\* controller recordMyAttendance: an admin or a teacher is recorded as
\* teacher '1'; any error of the service is answered 500
recordMyAttendance(role, status, t) ==
    IF role = "student"
    THEN /\ resp' = AttResponse("recordMyAttendance", 501,
                        "Student attendance not implemented yet", NULL)
         /\ UNCHANGED <<teacherAttendance, attNextId, now>>
    ELSE LET got == recordTeacherAttendance("1", Some([status |-> status]), t)
         IN  /\ teacherAttendance' = teacherAttendance \cup got.rows
             /\ attNextId' = attNextId + Cardinality(got.rows)
             /\ now' = IF got.rows # {} THEN t ELSE now
             /\ resp' = IF got.error = "none"
                        THEN AttResponse("recordMyAttendance", 201,
                                 "My attendance recorded successfully",
                                 serializeTeacherAttendance(
                                     CHOOSE row \in got.rows : TRUE))
                        ELSE AttResponse("recordMyAttendance", 500,
                                         "Internal server error", NULL)

\* POST /api/attendance/my-attendance
RecordMyAttendance ==
    /\ attNextId <= MaxAtt
    /\ \E role \in Roles, status \in Statuses, t \in Later :
          /\ recordMyAttendance(role, status, t)
          /\ obs' = AttObserve("1", status, role # "student",
                               teacherAttendance, teacherAttendance',
                               studentAttendance, studentAttendance)
    /\ UNCHANGED <<tz, schedules, nextId, studentAttendance, tables, procs>>

BulkRecords ==
    [type : {"teacher", "student"}, id : IdStrs(Teachers), status : Statuses]

RECURSIVE SeqsUpTo(_, _)
SeqsUpTo(S, n) ==
    IF n = 0 THEN {<<>>}
    ELSE LET shorter == SeqsUpTo(S, n - 1)
         IN  shorter \cup {Append(q, x) : q \in shorter, x \in S}

\* the call bulkRecordAttendance makes for one record: the service is handed
\* the record as its first argument and nothing else
bulkRecordOne(record, timestamp) ==
    IF record.type = "teacher"
    THEN recordTeacherAttendance(ObjectString, Undefined, timestamp)
    ELSE recordStudentAttendance(ObjectString, Undefined, Undefined, timestamp)

\* controller bulkRecordAttendance: every record's call is tried, its error
\* caught and reported in the results
AnswerBulkRecordAttendance(records) ==
    LET got == [i \in 1 .. Len(records) |-> bulkRecordOne(records[i], now)]
        rowsT == UNION {got[i].rows : i \in
                           {j \in 1 .. Len(records) :
                                records[j].type = "teacher"}}
        rowsS == UNION {got[i].rows : i \in
                           {j \in 1 .. Len(records) :
                                records[j].type = "student"}}
    IN  /\ teacherAttendance' = teacherAttendance \cup rowsT
        /\ studentAttendance' = studentAttendance \cup rowsS
        /\ attNextId' = attNextId + Cardinality(rowsT \cup rowsS)
        /\ resp' = AttResponse("bulkRecordAttendance", 200,
                       "Bulk attendance recording completed",
                       [i \in 1 .. Len(records) |->
                           [success |-> got[i].error = "none"]])
        /\ obs' = AttObserve(records[1].id, records[1].status, FALSE,
                             teacherAttendance, teacherAttendance',
                             studentAttendance, studentAttendance')

\* POST /api/attendance/bulk-record
BulkRecordAttendance ==
    /\ attNextId <= MaxAtt
    /\ \E records \in SeqsUpTo(BulkRecords, MaxBulk) \ {<<>>} :
          AnswerBulkRecordAttendance(records)
    /\ UNCHANGED <<tz, now, schedules, nextId, tables, procs>>

\* time passes between requests; the last response is then a past one
Tick ==
    /\ now < Horizon
    /\ now' = now + 1
    /\ resp' = NoResponse
    /\ obs' = NoObs
    /\ UNCHANGED <<tz, schedules, nextId, teacherAttendance,
                   studentAttendance, attNextId, tables, procs>>

\* a schedule of class 1 is stored, so that student recording finds one
InitAtt ==
    /\ tz \in TZOffsets
    /\ now = DaySlots
    /\ schedules = {[id |-> 1, class_id |-> 1, subject_id |-> 1,
                     teacher_id |-> 1, day_of_week |-> "Senin",
                     start_time |-> 0, end_time |-> 1, room |-> NULL]}
    /\ nextId = 1 + 1
    /\ teacherAttendance = {}
    /\ studentAttendance = {}
    /\ attNextId = 1
    /\ resp = NoResponse
    /\ obs = NoObs
    /\ tables = <<>>
    /\ procs = <<>>

NextAtt ==
    \/ RecordTeacherAttendance
    \/ RecordStudentAttendance
    \/ RecordMyAttendance
    \/ BulkRecordAttendance
    \/ Tick

\* attendance requests, each handled to completion before the next
SpecAtt == InitAtt /\ [][NextAtt]_vars

(* recordTeacherAttendance requests running concurrently: each await of the *)
(* service is one step, and other requests and the clock may run between.   *)

AttIdle == [pc |-> "idle", teacherId |-> "1", status |-> "Masuk",
            seen |-> {}, id |-> 0, error |-> "none"]

AttAtStart(p) ==
    /\ procs[p].pc = "idle"
    /\ \E teacherId \in AttIds, status \in Statuses :
          procs' = [procs EXCEPT ![p] = [AttIdle EXCEPT
                                            !.pc = "findUnique",
                                            !.teacherId = teacherId,
                                            !.status = status]]
    /\ UNCHANGED <<teacherAttendance, attNextId, now>>

\* await prisma.teacher.findUnique
AttAtFindUnique(p) ==
    /\ procs[p].pc = "findUnique"
    /\ procs' = IF BigInt(procs[p].teacherId) \in Teachers
                THEN [procs EXCEPT ![p].pc = "findFirst"]
                ELSE [procs EXCEPT ![p].pc = "done",
                                   ![p].error = "Teacher not found"]
    /\ UNCHANGED <<teacherAttendance, attNextId, now>>

\* await prisma.teacherAttendance.findFirst
AttAtFindFirst(p) ==
    /\ procs[p].pc = "findFirst"
    /\ LET found == existingTeacherAttendance(BigInt(procs[p].teacherId),
                                              procs[p].status)
       IN  procs' = [procs EXCEPT
                ![p].seen = {row.id : row \in teacherAttendance},
                ![p].pc = IF found # {} THEN "done" ELSE "create",
                ![p].error = IF found # {}
                             THEN AlreadyRecorded("Teacher", procs[p].status)
                             ELSE "none"]
    /\ UNCHANGED <<teacherAttendance, attNextId, now>>

\* await prisma.teacherAttendance.create
AttAtCreate(p) ==
    /\ procs[p].pc = "create"
    /\ teacherAttendance' = teacherAttendance \cup
          {[id |-> attNextId, teacher_id |-> BigInt(procs[p].teacherId),
            timestamp |-> now, status |-> procs[p].status]}
    /\ attNextId' = attNextId + 1
    /\ procs' = [procs EXCEPT ![p].pc = "done", ![p].id = attNextId]
    /\ UNCHANGED now

AttRaceRest == <<tz, schedules, nextId, studentAttendance, tables, resp, obs>>

AttRaceStart == (\E p \in Procs : AttAtStart(p)) /\ UNCHANGED AttRaceRest

AttRaceFindUnique ==
    (\E p \in Procs : AttAtFindUnique(p)) /\ UNCHANGED AttRaceRest

AttRaceFindFirst ==
    (\E p \in Procs : AttAtFindFirst(p)) /\ UNCHANGED AttRaceRest

AttRaceCreate == (\E p \in Procs : AttAtCreate(p)) /\ UNCHANGED AttRaceRest

AttRaceTick == Tick /\ UNCHANGED procs

InitAttRace ==
    /\ tz \in TZOffsets
    /\ now = DaySlots
    /\ InitStore
    /\ tables = <<>>
    /\ procs = [p \in Procs |-> AttIdle]

NextAttRace ==
    \/ AttRaceStart
    \/ AttRaceFindUnique
    \/ AttRaceFindFirst
    \/ AttRaceCreate
    \/ AttRaceTick

\* NumProcs recordTeacherAttendance requests running concurrently
SpecAttRace == InitAttRace /\ [][NextAttRace]_vars

----------------------------------------------------------------------------
(* Paginated lists *)

Entities == {"users", "teachers", "students", "classes", "subjects",
             "schedules", "journals", "teacherAttendance",
             "studentAttendance"}

\* the value of the column a list is filtered on (role, major, class, ...)
Tags == {"x", "y"}
Filters == {ABSENT} \cup Tags

\* Math.ceil(total / limit)
Ceil(total, limit) == (total + limit - 1) \div limit

\* new Pagination(page, limit, total): the derived fields are computed here,
\* from the total handed to the constructor
Pagination(page, limit, total) ==
    [page |-> page, limit |-> limit, total |-> total,
     totalPages |-> Ceil(total, limit),
     hasNext |-> page < Ceil(total, limit),
     hasPrev |-> page > 1]

\* Pagination.getMeta().pagination
getMeta(pagination) ==
    [page |-> pagination.page, limit |-> pagination.limit,
     total |-> pagination.total, totalPages |-> pagination.totalPages,
     hasNext |-> pagination.hasNext, hasPrev |-> pagination.hasPrev]

\* Pagination.getOffset()
getOffset(pagination) == (pagination.page - 1) * pagination.limit

\* userService.getUsers: the Pagination is built before the count, with the
\* default total, and its total field is assigned afterwards
getUsers(page, limit, total) ==
    LET pagination == Pagination(page, limit, 0)
    IN  getMeta([pagination EXCEPT !.total = total])

\* teacherService.getAllTeachers: as getUsers; the page count is stored in
\* a field `pages`, which getMeta does not read
getAllTeachers(page, limit, total) ==
    LET pagination == Pagination(page, limit, 0)
        counted == [page |-> pagination.page, limit |-> pagination.limit,
                    total |-> total, totalPages |-> pagination.totalPages,
                    hasNext |-> pagination.hasNext,
                    hasPrev |-> pagination.hasPrev,
                    pages |-> Ceil(total, pagination.limit)]
    IN  getMeta(counted)

\* studentService.getAllStudents: as getAllTeachers
getAllStudents(page, limit, total) ==
    LET pagination == Pagination(page, limit, 0)
        counted == [page |-> pagination.page, limit |-> pagination.limit,
                    total |-> total, totalPages |-> pagination.totalPages,
                    hasNext |-> pagination.hasNext,
                    hasPrev |-> pagination.hasPrev,
                    pages |-> Ceil(total, pagination.limit)]
    IN  getMeta(counted)

\* classService.getClasses: the metadata is written out in place
getClasses(page, limit, total) ==
    [page |-> page, limit |-> limit, total |-> total,
     totalPages |-> Ceil(total, limit),
     hasNext |-> page < Ceil(total, limit),
     hasPrev |-> page > 1]

\* subjectService.getSubjects
getSubjects(page, limit, total) ==
    [page |-> page, limit |-> limit, total |-> total,
     totalPages |-> Ceil(total, limit),
     hasNext |-> page * limit < total,
     hasPrev |-> page > 1]

\* scheduleService.getAllSchedules
getAllSchedules(page, limit, total) ==
    [page |-> page, limit |-> limit, total |-> total,
     totalPages |-> Ceil(total, limit),
     hasNext |-> page < Ceil(total, limit),
     hasPrev |-> page > 1]

\* journalService.getAllJournals: the Pagination is built after the count
getAllJournals(page, limit, total) == getMeta(Pagination(page, limit, total))

\* attendanceService.getTeacherAttendance
getTeacherAttendance(page, limit, total) ==
    LET totalPages == Ceil(total, limit)
    IN  [page |-> page, limit |-> limit, total |-> total,
         totalPages |-> totalPages,
         hasNext |-> page < totalPages,
         hasPrev |-> page > 1]

\* attendanceService.getStudentAttendance
getStudentAttendance(page, limit, total) ==
    LET totalPages == Ceil(total, limit)
    IN  [page |-> page, limit |-> limit, total |-> total,
         totalPages |-> totalPages,
         hasNext |-> page < totalPages,
         hasPrev |-> page > 1]

\* the where clause of a list: every row, or the rows of one tag
Where(rows, filter) ==
    {row \in rows : filter = ABSENT \/ row.tag = filter}

\* rows a findMany with skip and take returns out of `count` matching rows
Taken(count, skip, take) ==
    IF count <= skip THEN 0
    ELSE IF count - skip < take THEN count - skip ELSE take

\* the query of a list request, as the validators admit it
ListRequests ==
    [page : 1 .. MaxPage, limit : 1 .. MaxLimit, filter : Filters]

\* prisma.<entity>.count({ where })
Count(entity, filter) == Cardinality(Where(tables[entity], filter))

\* one list request answered: the rows findMany returns with skip and take,
\* and the metadata as the service at hand built it
List(op, entity, request, pagination) ==
    /\ resp' = Response(op, 200, "none",
                  [rows |-> Taken(Count(entity, request.filter),
                                  (request.page - 1) * request.limit,
                                  request.limit),
                   pagination |-> pagination])
    /\ obs' = [request |-> request,
               matching |-> Where(tables[entity], request.filter)]
    /\ UNCHANGED tables

PageRest == <<tz, now, schedules, nextId, teacherAttendance,
              studentAttendance, attNextId, procs>>

GetUsers ==
    /\ \E request \in ListRequests :
          List("getUsers", "users", request,
               getUsers(request.page, request.limit,
                  Count("users", request.filter)))
    /\ UNCHANGED PageRest

GetAllTeachers ==
    /\ \E request \in ListRequests :
          List("getAllTeachers", "teachers", request,
               getAllTeachers(request.page, request.limit,
                  Count("teachers", request.filter)))
    /\ UNCHANGED PageRest

GetAllStudents ==
    /\ \E request \in ListRequests :
          List("getAllStudents", "students", request,
               getAllStudents(request.page, request.limit,
                  Count("students", request.filter)))
    /\ UNCHANGED PageRest

GetClasses ==
    /\ \E request \in ListRequests :
          List("getClasses", "classes", request,
               getClasses(request.page, request.limit,
                  Count("classes", request.filter)))
    /\ UNCHANGED PageRest

GetSubjects ==
    /\ \E request \in ListRequests :
          List("getSubjects", "subjects", request,
               getSubjects(request.page, request.limit,
                  Count("subjects", request.filter)))
    /\ UNCHANGED PageRest

GetAllSchedules ==
    /\ \E request \in ListRequests :
          List("getAllSchedules", "schedules", request,
               getAllSchedules(request.page, request.limit,
                  Count("schedules", request.filter)))
    /\ UNCHANGED PageRest

GetAllJournals ==
    /\ \E request \in ListRequests :
          List("getAllJournals", "journals", request,
               getAllJournals(request.page, request.limit,
                  Count("journals", request.filter)))
    /\ UNCHANGED PageRest

GetTeacherAttendance ==
    /\ \E request \in ListRequests :
          List("getTeacherAttendance", "teacherAttendance", request,
               getTeacherAttendance(request.page, request.limit,
                  Count("teacherAttendance", request.filter)))
    /\ UNCHANGED PageRest

GetStudentAttendance ==
    /\ \E request \in ListRequests :
          List("getStudentAttendance", "studentAttendance", request,
               getStudentAttendance(request.page, request.limit,
                  Count("studentAttendance", request.filter)))
    /\ UNCHANGED PageRest

RowCount == LET RECURSIVE Sum(_)
                Sum(S) == IF S = {} THEN 0
                          ELSE LET e == CHOOSE x \in S : TRUE
                               IN  Cardinality(tables[e]) + Sum(S \ {e})
            IN  Sum(Entities)

\* a create of one of the listed entities adds a row to its table
AddRow ==
    /\ RowCount < MaxRows
    /\ \E entity \in Entities, tag \in Tags :
          tables' = [tables EXCEPT ![entity] =
                        @ \cup {[id |-> Cardinality(@) + 1, tag |-> tag]}]
    /\ resp' = NoResponse
    /\ obs' = NoObs
    /\ UNCHANGED PageRest

InitPage ==
    /\ InitStore
    /\ tz = UTC
    /\ now = DaySlots
    /\ tables = [entity \in Entities |-> {}]
    /\ procs = <<>>

NextPage ==
    \/ AddRow
    \/ GetUsers
    \/ GetAllTeachers
    \/ GetAllStudents
    \/ GetClasses
    \/ GetSubjects
    \/ GetAllSchedules
    \/ GetAllJournals
    \/ GetTeacherAttendance
    \/ GetStudentAttendance

\* the tables fill and are listed page by page
SpecPage == InitPage /\ [][NextPage]_vars

----------------------------------------------------------------------------
(* Routes and their middleware: authenticate, authorize, validate.  A      *)
(* request in flight is                                                     *)
(*   [pc, route, chain, authHeader, valid, user, ran, before]               *)
(* where chain is what is left of the route's handlers, user is what        *)
(* authenticate put in req.user, ran lists the handlers that ran and        *)
(* before is the store when the request arrived.                            *)

UserRoles == {"admin", "teacher", "student", "staff"}

\* a handler of a route
Mw(kind, roles) == [kind |-> kind, roles |-> roles]

\* the routes, with their handlers in the order express runs them: those
\* of router.use first, then those of the route
Routes ==
    {[name |-> "POST /api/schedules", table |-> "schedule", writes |-> TRUE,
      chain |-> <<Mw("authenticate", {}), Mw("authorize", {"admin"}),
                  Mw("validate", {}), Mw("controller", {})>>],
     [name |-> "POST /api/classes", table |-> "class", writes |-> TRUE,
      chain |-> <<Mw("authenticate", {}), Mw("validate", {}),
                  Mw("authorize", {"admin", "staff"}),
                  Mw("controller", {})>>],
     [name |-> "GET /api/users", table |-> "user", writes |-> FALSE,
      chain |-> <<Mw("authenticate", {}), Mw("authorize", {"admin"}),
                  Mw("validate", {}), Mw("controller", {})>>],
     [name |-> "GET /api/journals/:id", table |-> "teachingJournal",
      writes |-> FALSE,
      chain |-> <<Mw("authenticate", {}),
                  Mw("authorize", {"admin", "teacher"}),
                  Mw("validate", {}), Mw("controller", {})>>],
     [name |-> "GET /api/attendance/my-status", table |-> "teacherAttendance",
      writes |-> FALSE,
      chain |-> <<Mw("authenticate", {}),
                  Mw("authorize", {"admin", "teacher", "student"}),
                  Mw("controller", {})>>]}

\* the Authorization header: none, a bearer token that does not verify, or
\* a bearer token signed for a userId
INVALID == "invalid"
AuthHeaders == {ABSENT, INVALID} \cup IdStrs(1 .. MaxUsers + 1)

\* extractTokenFromHeader
extractTokenFromHeader(authHeader) ==
    IF authHeader = ABSENT THEN NULL ELSE authHeader

\* verifyToken: decoded.userId, or <<>> when jwt.verify throws
verifyToken(token) == IF token = INVALID THEN <<>> ELSE <<token>>

\* the lookup without is_active: true
ActiveUserAnyStatus(users, id) == {u \in users : u.id = id}

\* prisma.user.findUnique({ where: { id, is_active: true } })
ActiveUser(users, id) == {u \in users : u.id = id /\ u.is_active}

Denied(status, message) ==
    [status |-> status, message |-> message, user |-> <<>>]
Passed(user) == [status |-> 0, message |-> "next", user |-> user]

\* middleware authenticate
authenticate(users, authHeader) ==
    LET token == extractTokenFromHeader(authHeader)
    IN  IF token = NULL THEN Denied(401, "Access token is required")
        ELSE IF verifyToken(token) = <<>>
             THEN Denied(401, "Invalid or expired token")
        ELSE IF ActiveUser(users, BigInt(verifyToken(token)[1])) = {}
             THEN Denied(401, "User not found or inactive")
        ELSE Passed(<<CHOOSE u \in ActiveUser(users,
                                      BigInt(verifyToken(token)[1])) : TRUE>>)

\* middleware authorize(...roles)
authorize(roles, user) ==
    IF user = <<>>
    THEN Denied(401, "Access denied - authentication required")
    ELSE IF user[1].role \notin roles
         THEN Denied(403, "Access denied - insufficient permissions")
    ELSE Passed(user)

\* middleware validate(schema, property)
validate(valid, user) ==
    IF ~valid THEN Denied(400, "Validation error") ELSE Passed(user)

InFlight == Len(procs) = 1 /\ procs[1].pc = "run"

Handler == Head(procs[1].chain)

\* a handler answered: the request is over
Answered(op, status, message) ==
    /\ resp' = AttResponse(op, status, message, NULL)
    /\ procs' = <<[procs[1] EXCEPT !.pc = "done",
                                   !.ran = Append(@, Handler.kind)]>>

\* a handler called next()
Continued(user) ==
    /\ resp' = resp
    /\ procs' = <<[procs[1] EXCEPT !.chain = Tail(@), !.user = user,
                                   !.ran = Append(@, Handler.kind)]>>

AuthRest == <<tz, now, schedules, nextId, teacherAttendance,
              studentAttendance, attNextId, obs>>

\* a request arrives
Receive ==
    /\ ~InFlight
    /\ \E route \in Routes, authHeader \in AuthHeaders, valid \in BOOLEAN :
          /\ route.writes => Cardinality(tables[route.table]) < MaxRows
          /\ procs' = <<[pc |-> "run", route |-> route.name,
                         table |-> route.table, writes |-> route.writes,
                         roles |-> UNION {route.chain[i].roles :
                                             i \in DOMAIN route.chain},
                         chain |-> route.chain, authHeader |-> authHeader,
                         valid |-> valid, user |-> <<>>, ran |-> <<>>,
                         before |-> tables]>>
    /\ resp' = NoResponse
    /\ UNCHANGED tables
    /\ UNCHANGED AuthRest

Authenticate ==
    /\ InFlight
    /\ Handler.kind = "authenticate"
    /\ LET got == authenticate(tables["user"], procs[1].authHeader)
       IN  IF got.status = 0 THEN Continued(got.user)
           ELSE Answered("authenticate", got.status, got.message)
    /\ UNCHANGED tables
    /\ UNCHANGED AuthRest

Authorize ==
    /\ InFlight
    /\ Handler.kind = "authorize"
    /\ LET got == authorize(Handler.roles, procs[1].user)
       IN  IF got.status = 0 THEN Continued(got.user)
           ELSE Answered("authorize", got.status, got.message)
    /\ UNCHANGED tables
    /\ UNCHANGED AuthRest

Validate ==
    /\ InFlight
    /\ Handler.kind = "validate"
    /\ LET got == validate(procs[1].valid, procs[1].user)
       IN  IF got.status = 0 THEN Continued(got.user)
           ELSE Answered("validate", got.status, got.message)
    /\ UNCHANGED tables
    /\ UNCHANGED AuthRest

\* the controller of the route: its access to the store, and its answer
Controller ==
    /\ InFlight
    /\ Handler.kind = "controller"
    /\ tables' = IF procs[1].writes
                 THEN [tables EXCEPT ![procs[1].table] =
                          @ \cup {[id |-> Cardinality(@) + 1, tag |-> "x"]}]
                 ELSE tables
    /\ Answered("controller", IF procs[1].writes THEN 201 ELSE 200, "success")
    /\ UNCHANGED AuthRest

UserTables ==
    {{[id |-> 1, role |-> r1, is_active |-> a1],
      [id |-> MaxUsers, role |-> r2, is_active |-> a2]} :
        r1 \in UserRoles, r2 \in UserRoles, a1 \in BOOLEAN, a2 \in BOOLEAN}

InitAuth ==
    /\ InitStore
    /\ tz = UTC
    /\ now = DaySlots
    /\ \E users \in UserTables :
          tables = [t \in {"user", "schedule", "class", "teachingJournal",
                           "teacherAttendance"} |->
                        IF t = "user" THEN users ELSE {}]
    /\ procs = <<>>

NextAuth ==
    \/ Receive
    \/ Authenticate
    \/ Authorize
    \/ Validate
    \/ Controller

\* requests to the guarded routes, one at a time, handler by handler
SpecAuth == InitAuth /\ [][NextAuth]_vars

----------------------------------------------------------------------------
(* classService, userService.createUser and journalService.createJournal.  *)
(* Their tables are tables.class, tables.user and tables.teachingJournal;  *)
(* tables.seq holds the autoincrement counter of each.                      *)

ClassNames == {"X RPL 1", "X RPL 2"}
GradeLevels == {10}
Usernames == {"budi", "siti"}
TeachingDates == {"2025-01-06"}

NextSeq(table) == tables["seq"][table]

\* the tables after a row was created in `table`
Inserted(table, row) ==
    [tables EXCEPT ![table] = @ \cup {row},
                   !["seq"] = [@ EXCEPT ![table] = @ + 1]]

\* what a service call comes to: the error thrown ("none" when it returned),
\* the value returned and the tables afterwards
Returned(value, after) == [error |-> "none", value |-> value, after |-> after]
Threw(message) == [error |-> message, value |-> NULL, after |-> tables]

serializeClass(classItem) ==
    [id |-> toString(classItem.id), class_name |-> classItem.class_name,
     grade_level |-> classItem.grade_level]

ClassById(id) == {row \in tables["class"] : row.id = id}

\* classService.getClassById
getClassById(id) ==
    IF ClassById(BigInt(id)) = {} THEN Threw("Class not found")
    ELSE Returned(serializeClass(CHOOSE row \in ClassById(BigInt(id)) : TRUE),
                  tables)

\* classService.createClass
createClass(classData) ==
    LET existingClass ==
            {row \in tables["class"] :
                /\ row.class_name = classData.class_name
                /\ row.grade_level = classData.grade_level}
        classItem == [id |-> NextSeq("class"),
                      class_name |-> classData.class_name,
                      grade_level |-> classData.grade_level]
    IN  IF existingClass # {}
        THEN Threw("Class with this name and grade level already exists")
        ELSE Returned(serializeClass(classItem), Inserted("class", classItem))

\* classService.updateClass
updateClass(id, updateData) ==
    IF ClassById(BigInt(id)) = {} THEN Threw("Class not found")
    ELSE LET existingClass == CHOOSE row \in ClassById(BigInt(id)) : TRUE
             className == IF updateData.class_name # ABSENT
                          THEN updateData.class_name
                          ELSE existingClass.class_name
             duplicateClass ==
                 {row \in tables["class"] :
                     /\ row.class_name = className
                     /\ row.grade_level = existingClass.grade_level
                     /\ row.id # BigInt(id)}
             classItem == [existingClass EXCEPT !.class_name = className]
         IN  IF updateData.class_name # ABSENT /\ duplicateClass # {}
             THEN Threw("Class with this name and grade level already exists")
             ELSE Returned(serializeClass(classItem),
                           [tables EXCEPT !["class"] =
                               (@ \ {existingClass}) \cup {classItem}])

\* classService.deleteClass
deleteClass(id) ==
    IF ClassById(BigInt(id)) = {} THEN Threw("Class not found")
    ELSE IF {st \in Students : st.current_class_id = BigInt(id)} # {}
         THEN Threw("Cannot delete class with enrolled students")
    ELSE IF {row \in schedules : row.class_id = BigInt(id)} # {}
         THEN Threw("Cannot delete class with existing schedules")
    ELSE Returned([message |-> "Class deleted successfully"],
                  [tables EXCEPT !["class"] = @ \ ClassById(BigInt(id))])

\* the catch of the ClassController methods: error.status || 500, and the
\* errors the service throws carry no status
ClassError(op, got) == AttResponse(op, 500, got.error, NULL)

CrudRest == <<tz, now, teacherAttendance, studentAttendance, attNextId,
              procs>>

\* GET /api/classes/:id
AnswerGetClassById(id) ==
    LET got == getClassById(id)
    IN  /\ tables' = got.after
        /\ resp' = IF got.error = "none"
                   THEN AttResponse("getClassById", 200,
                            "Class retrieved successfully", got.value)
                   ELSE ClassError("getClassById", got)

GetClassById ==
    /\ \E id \in ScheduleIds : AnswerGetClassById(id)
    /\ obs' = NoObs
    /\ UNCHANGED <<schedules, nextId>>
    /\ UNCHANGED CrudRest

ClassBodies == [class_name : ClassNames, grade_level : GradeLevels]

\* POST /api/classes
AnswerCreateClass(body) ==
    LET got == createClass(body)
    IN  /\ tables' = got.after
        /\ resp' = IF got.error = "none"
                   THEN AttResponse("createClass", 201,
                            "Class created successfully", got.value)
                   ELSE ClassError("createClass", got)

CreateClass ==
    /\ NextSeq("class") <= MaxId
    /\ \E body \in ClassBodies : AnswerCreateClass(body)
    /\ obs' = NoObs
    /\ UNCHANGED <<schedules, nextId>>
    /\ UNCHANGED CrudRest

ClassPatches == [class_name : ClassNames \cup {ABSENT}]

\* PUT /api/classes/:id
AnswerUpdateClass(id, body) ==
    LET got == updateClass(id, body)
    IN  /\ tables' = got.after
        /\ resp' = IF got.error = "none"
                   THEN AttResponse("updateClass", 200,
                            "Class updated successfully", got.value)
                   ELSE ClassError("updateClass", got)

UpdateClass ==
    /\ \E id \in ScheduleIds, body \in ClassPatches : AnswerUpdateClass(id, body)
    /\ obs' = NoObs
    /\ UNCHANGED <<schedules, nextId>>
    /\ UNCHANGED CrudRest

\* DELETE /api/classes/:id
AnswerDeleteClass(id) ==
    LET got == deleteClass(id)
    IN  /\ tables' = got.after
        /\ resp' = IF got.error = "none"
                   THEN AttResponse("deleteClass", 200,
                            "Class deleted successfully", NULL)
                   ELSE ClassError("deleteClass", got)

DeleteClass ==
    /\ \E id \in ScheduleIds : AnswerDeleteClass(id)
    /\ obs' = NoObs
    /\ UNCHANGED <<schedules, nextId>>
    /\ UNCHANGED CrudRest

\* userService.createUser
createUser(userData) ==
    LET existingUser ==
            {u \in tables["user"] : u.username = userData.username}
        user == [id |-> NextSeq("user"), username |-> userData.username,
                 role |-> userData.role, is_active |-> TRUE]
    IN  IF existingUser # {} THEN Threw("Username already exists")
        ELSE Returned([id |-> toString(user.id), username |-> user.username,
                       role |-> user.role, is_active |-> user.is_active],
                      Inserted("user", user))

\* errorHandler: error.statusCode || 500; the Prisma, JWT, validation and
\* multer cases do not apply to an Error thrown by a service
errorHandler(op, got) == AttResponse(op, 500, got.error, NULL)

UserBodies == [username : Usernames, role : {"teacher"}]

\* POST /api/users: asyncHandler hands what the service throws to
\* errorHandler
AnswerCreateUser(body) ==
    LET got == createUser(body)
    IN  /\ tables' = got.after
        /\ resp' = IF got.error = "none"
                   THEN AttResponse("createUser", 201,
                            "User created successfully", got.value)
                   ELSE errorHandler("createUser", got)

CreateUser ==
    /\ NextSeq("user") <= MaxId
    /\ \E body \in UserBodies : AnswerCreateUser(body)
    /\ obs' = NoObs
    /\ UNCHANGED <<schedules, nextId>>
    /\ UNCHANGED CrudRest

\* journalService.createJournal
createJournal(journalData) ==
    LET existingJournal ==
            {j \in tables["teachingJournal"] :
                /\ j.schedule_id = BigInt(journalData.schedule_id)
                /\ j.teaching_date = journalData.teaching_date}
        journal == [id |-> NextSeq("teachingJournal"),
                    schedule_id |-> BigInt(journalData.schedule_id),
                    teaching_date |-> journalData.teaching_date]
    IN  IF ScheduleById(schedules, BigInt(journalData.schedule_id)) = {}
        THEN Threw("Schedule not found")
        ELSE IF existingJournal # {}
        THEN Threw("Teaching journal for this schedule and date already exists")
        ELSE Returned([id |-> toString(journal.id),
                       schedule_id |-> toString(journal.schedule_id),
                       teaching_date |-> journal.teaching_date],
                      Inserted("teachingJournal", journal))

JournalBodies == [schedule_id : ScheduleIds, teaching_date : TeachingDates]

\* POST /api/journals: 'already exists' and 'not found' are answered 400
AnswerCreateJournal(body) ==
    LET got == createJournal(body)
    IN  /\ tables' = got.after
        /\ resp' = IF got.error = "none"
                   THEN AttResponse("createJournal", 201,
                            "Teaching journal created successfully",
                            got.value)
                   ELSE AttResponse("createJournal", 400, got.error, NULL)

CreateJournal ==
    /\ NextSeq("teachingJournal") <= MaxId
    /\ \E body \in JournalBodies : AnswerCreateJournal(body)
    /\ obs' = NoObs
    /\ UNCHANGED <<schedules, nextId>>
    /\ UNCHANGED CrudRest

\* the schedule requests of this specification: one class, teacher and day
CrudBodies ==
    {body \in CreateBodies :
        /\ body.class_id = "1"
        /\ body.teacher_id = "1"
        /\ body.day_of_week = "Senin"
        /\ body.room = NULL
        /\ body.start_time = TimeStr[1]}

CrudCreateSchedule ==
    /\ \E body \in CrudBodies : createSchedule(body)
    /\ UNCHANGED tables
    /\ UNCHANGED CrudRest

CrudUpdateSchedule ==
    /\ \E id \in ScheduleIds, body \in BodiesWith(0) : updateSchedule(id, body)
    /\ UNCHANGED <<nextId, tables>>
    /\ UNCHANGED CrudRest

InitCrud ==
    /\ InitStore
    /\ tz = UTC
    /\ now = DaySlots
    /\ tables = [t \in {"class", "user", "teachingJournal", "seq"} |->
                    IF t = "seq"
                    THEN [s \in {"class", "user", "teachingJournal"} |-> 1]
                    ELSE {}]
    /\ procs = <<>>

NextCrud ==
    \/ CrudCreateSchedule
    \/ CrudUpdateSchedule
    \/ GetScheduleById
    \/ DeleteSchedule
    \/ CreateClass
    \/ GetClassById
    \/ UpdateClass
    \/ DeleteClass
    \/ CreateUser
    \/ CreateJournal

\* creates, reads by id, updates and deletes of schedules and classes, and
\* the creates of users and journals, one request at a time
SpecCrud == InitCrud /\ [][NextCrud]_vars

----------------------------------------------------------------------------
(* authService.login.  A user row is                                        *)
(*   [id, username, password, role, is_active, last_login]                  *)
(* with password the bcrypt hash and last_login NULL or an instant.         *)

Passwords == {"rahasia1", "rahasia2"}

\* bcrypt.hash(password, saltRounds)
hashPassword(password) == <<"bcrypt", password>>

\* bcrypt.compare(password, hash)
comparePassword(password, hash) == hash = <<"bcrypt", password>>

\* createTokenPayload(user)
createTokenPayload(user) ==
    [userId |-> toString(user.id), username |-> user.username,
     role |-> user.role]

\* jwt.sign(payload, config.jwt.secret, ...)
generateAccessToken(payload) == [secret |-> "secret", payload |-> payload]

\* jwt.sign(payload, config.jwt.refreshSecret, ...)
generateRefreshToken(payload) ==
    [secret |-> "refreshSecret", payload |-> payload]

\* authService.login
login(username, password) ==
    LET found == {u \in tables["user"] :
                     u.username = username /\ u.is_active}
    IN  IF found = {} THEN Threw("Invalid credentials")
        ELSE LET user == CHOOSE u \in found : TRUE
                 updated == [user EXCEPT !.last_login = now]
             IN  IF ~comparePassword(password, user.password)
                 THEN Threw("Invalid credentials")
                 ELSE Returned(
                          [user |-> [id |-> toString(user.id),
                                     username |-> user.username,
                                     role |-> user.role],
                           tokens |->
                              {generateAccessToken(createTokenPayload(user)),
                               generateRefreshToken(createTokenPayload(user))}],
                          [tables EXCEPT !["user"] =
                              (@ \ {user}) \cup {updated}])

LoginResponse(status, message, tokens) ==
    [op |-> "login", status |-> status, conflict |-> "none",
     message |-> message, tokens |-> tokens]

\* AuthController.login: what the service throws goes through asyncHandler
\* to errorHandler, which answers error.statusCode || 500
AnswerLogin(username, password) ==
    LET got == login(username, password)
    IN  /\ tables' = got.after
        /\ resp' = IF got.error = "none"
                   THEN LoginResponse(200, "Login successful",
                                      got.value.tokens)
                   ELSE LoginResponse(errorHandler("login", got).status,
                                      got.error, {})

LoginRest == <<tz, schedules, nextId, teacherAttendance, studentAttendance,
               attNextId, obs, procs>>

\* POST /api/auth/login; "wati" names no account
Login ==
    /\ \E username \in Usernames \cup {"wati"}, password \in Passwords :
          AnswerLogin(username, password)
    /\ UNCHANGED now
    /\ UNCHANGED LoginRest

\* userService.toggleUserStatus
toggleUserStatus(id) ==
    LET found == {u \in tables["user"] : u.id = BigInt(id)}
    IN  IF found = {} THEN Threw("User not found")
        ELSE LET existingUser == CHOOSE u \in found : TRUE
                 user == [existingUser EXCEPT !.is_active = ~@]
             IN  Returned([id |-> id, is_active |-> user.is_active],
                          [tables EXCEPT !["user"] =
                              (@ \ {existingUser}) \cup {user}])

\* UserController.toggleUserStatus
AnswerToggleUserStatus(id) ==
    LET got == toggleUserStatus(id)
    IN  /\ tables' = got.after
        /\ resp' = IF got.error = "none"
                   THEN AttResponse("toggleUserStatus", 200,
                            IF got.value.is_active
                            THEN "User activated successfully"
                            ELSE "User deactivated successfully",
                            got.value)
                   ELSE errorHandler("toggleUserStatus", got)

\* PATCH /api/users/:id/toggle-status
ToggleUserStatus ==
    /\ \E id \in IdStrs(1 .. MaxUsers + 1) : AnswerToggleUserStatus(id)
    /\ UNCHANGED now
    /\ UNCHANGED LoginRest

\* time passes between requests
LoginTick ==
    /\ now < Horizon
    /\ now' = now + 1
    /\ resp' = NoResponse
    /\ UNCHANGED tables
    /\ UNCHANGED LoginRest

\* the accounts: an admin and a teacher, both active, neither logged in yet
SeedUsers ==
    {[id |-> 1, username |-> "budi", password |-> hashPassword("rahasia1"),
      role |-> "admin", is_active |-> TRUE, last_login |-> 0],
     [id |-> MaxUsers, username |-> "siti",
      password |-> hashPassword("rahasia2"),
      role |-> "teacher", is_active |-> TRUE, last_login |-> 0]}

InitLogin ==
    /\ InitStore
    /\ tz = UTC
    /\ now = DaySlots
    /\ tables = [t \in {"user"} |-> SeedUsers]
    /\ procs = <<>>

NextLogin ==
    \/ Login
    \/ ToggleUserStatus
    \/ LoginTick

\* logins, with accounts switched off and on and time passing
SpecLogin == InitLogin /\ [][NextLogin]_vars

----------------------------------------------------------------------------
(* Journals and teacher profiles, updated and deleted by signed-in users.   *)
(* Rows: user [id, username, role, is_active], teacher [id, user_id,        *)
(* full_name, nip], schedule [id, teacher_id], teachingJournal [id,         *)
(* schedule_id, teaching_date, topic].  Absent body fields are Undefined.   *)

Topics == {"Aljabar dasar", "Turunan fungsi"}
FullNames == {"Budi Santoso", "Siti Aminah"}
Nips == {"197801012005011001", "198202022006042002"}

JournalById(id) == {j \in tables["teachingJournal"] : j.id = id}
TeacherById(id) == {t \in tables["teacher"] : t.id = id}

\* journalService.updateJournal
updateJournal(id, updateData) ==
    IF JournalById(BigInt(id)) = {} THEN Threw("Teaching journal not found")
    ELSE LET existingJournal == CHOOSE j \in JournalById(BigInt(id)) : TRUE
             journal ==
                 IF updateData.topic # Undefined
                 THEN [existingJournal EXCEPT !.topic = updateData.topic[1]]
                 ELSE existingJournal
         IN  Returned([id |-> id, topic |-> journal.topic],
                      [tables EXCEPT !["teachingJournal"] =
                          (@ \ {existingJournal}) \cup {journal}])

\* journalService.deleteJournal
deleteJournal(id) ==
    IF JournalById(BigInt(id)) = {} THEN Threw("Teaching journal not found")
    ELSE Returned([success |-> TRUE],
                  [tables EXCEPT !["teachingJournal"] =
                      @ \ JournalById(BigInt(id))])

\* teacherService.updateTeacher
updateTeacher(id, teacherData) ==
    IF TeacherById(BigInt(id)) = {} THEN Threw("Teacher not found")
    ELSE LET existingTeacher == CHOOSE t \in TeacherById(BigInt(id)) : TRUE
             duplicateCheck ==
                 IF teacherData.nip = Undefined THEN {}
                 ELSE {t \in tables["teacher"] :
                          t.id # BigInt(id) /\ t.nip = teacherData.nip[1]}
             named == IF teacherData.full_name # Undefined
                      THEN [existingTeacher EXCEPT
                               !.full_name = teacherData.full_name[1]]
                      ELSE existingTeacher
             teacher == IF teacherData.nip # Undefined
                        THEN [named EXCEPT !.nip = teacherData.nip[1]]
                        ELSE named
         IN  IF duplicateCheck # {} THEN Threw("NIP already exists")
             ELSE Returned([id |-> id, full_name |-> teacher.full_name,
                            nip |-> teacher.nip],
                           [tables EXCEPT !["teacher"] =
                               (@ \ {existingTeacher}) \cup {teacher}])

\* the handlers of a route after authenticate: authorize, then the
\* validations, then the controller's answer
Guarded(op, roles, user, valid, answer) ==
    LET allowed == authorize(roles, <<user>>)
        checked == validate(valid, <<user>>)
    IN  IF allowed.status # 0
        THEN [status |-> allowed.status, message |-> allowed.message,
              body |-> NULL, after |-> tables]
        ELSE IF checked.status # 0
        THEN [status |-> checked.status, message |-> checked.message,
              body |-> NULL, after |-> tables]
        ELSE answer

Answer(status, message, body, after) ==
    [status |-> status, message |-> message, body |-> body, after |-> after]

\* JournalController.updateJournal
JournalUpdated(id, body) ==
    LET got == updateJournal(id, body)
    IN  IF got.error = "none"
        THEN Answer(200, "Teaching journal updated successfully", got.value,
                    got.after)
        ELSE IF got.error = "Teaching journal not found"
        THEN Answer(404, got.error, NULL, tables)
        ELSE Answer(500, "Failed to update teaching journal", NULL, tables)

\* JournalController.deleteJournal
JournalDeleted(id) ==
    LET got == deleteJournal(id)
    IN  IF got.error = "none"
        THEN Answer(200, "Teaching journal deleted successfully", NULL,
                    got.after)
        ELSE IF got.error = "Teaching journal not found"
        THEN Answer(404, got.error, NULL, tables)
        ELSE Answer(500, "Failed to delete teaching journal", NULL, tables)

\* TeacherController.updateTeacher
TeacherUpdated(id, body) ==
    LET got == updateTeacher(id, body)
    IN  IF got.error = "none"
        THEN Answer(200, "Teacher updated successfully", got.value, got.after)
        ELSE IF got.error = "Teacher not found"
        THEN Answer(404, "Teacher not found", NULL, tables)
        ELSE IF got.error = "NIP already exists"
        THEN Answer(400, got.error, NULL, tables)
        ELSE Answer(500, "Failed to update teacher", NULL, tables)

Answers(op, answer) ==
    /\ tables' = answer.after
    /\ resp' = AttResponse(op, answer.status, answer.message, answer.body)

\* PUT /api/journals/:id by the signed-in user
PutJournal(user, id, valid, body) ==
    Answers("updateJournal",
            Guarded("updateJournal", {"admin", "teacher"}, user, valid,
                    JournalUpdated(id, body)))

\* DELETE /api/journals/:id by the signed-in user
DelJournal(user, id, valid) ==
    Answers("deleteJournal",
            Guarded("deleteJournal", {"admin", "teacher"}, user, valid,
                    JournalDeleted(id)))

\* PUT /api/teachers/:id by the signed-in user
PutTeacher(user, id, valid, body) ==
    Answers("updateTeacher",
            Guarded("updateTeacher", {"admin", "teacher"}, user, valid,
                    TeacherUpdated(id, body)))

JournalPatches == [topic : {Undefined} \cup {Some(t) : t \in Topics}]
TeacherPatches == [full_name : {Undefined} \cup {Some(n) : n \in FullNames},
                   nip : {Undefined} \cup {Some(n) : n \in Nips}]

\* the users authenticate lets through
SignedIn == {u \in tables["user"] : u.is_active}

OwnRest == <<tz, now, schedules, nextId, teacherAttendance,
             studentAttendance, attNextId, obs, procs>>

UpdateJournal ==
    /\ \E user \in SignedIn, id \in IdStrs(1 .. MaxId + 1),
          valid \in BOOLEAN, body \in JournalPatches :
          PutJournal(user, id, valid, body)
    /\ UNCHANGED OwnRest

DeleteJournal ==
    /\ \E user \in SignedIn, id \in IdStrs(1 .. MaxId + 1),
          valid \in BOOLEAN :
          DelJournal(user, id, valid)
    /\ UNCHANGED OwnRest

UpdateTeacher ==
    /\ \E user \in SignedIn, id \in IdStrs(1 .. MaxId + 1),
          valid \in BOOLEAN, body \in TeacherPatches :
          PutTeacher(user, id, valid, body)
    /\ UNCHANGED OwnRest

\* two teachers, each with a user account, a schedule and a journal; an
\* admin and a student beside them
InitOwn ==
    /\ InitStore
    /\ tz = UTC
    /\ now = DaySlots
    /\ tables =
         [t \in {"user", "teacher", "schedule", "teachingJournal"} |->
            CASE t = "user" ->
                   {[id |-> 1, username |-> "budi", role |-> "teacher",
                     is_active |-> TRUE],
                    [id |-> 2, username |-> "siti", role |-> "teacher",
                     is_active |-> TRUE],
                    [id |-> 3, username |-> "admin", role |-> "admin",
                     is_active |-> TRUE],
                    [id |-> 4, username |-> "wati", role |-> "student",
                     is_active |-> TRUE]}
              [] t = "teacher" ->
                   {[id |-> 1, user_id |-> 1, full_name |-> "Budi Santoso",
                     nip |-> "197801012005011001"],
                    [id |-> 2, user_id |-> 2, full_name |-> "Siti Aminah",
                     nip |-> "198202022006042002"]}
              [] t = "schedule" ->
                   {[id |-> 1, teacher_id |-> 1], [id |-> 2, teacher_id |-> 2]}
              [] t = "teachingJournal" ->
                   {[id |-> 1, schedule_id |-> 1,
                     teaching_date |-> "2025-01-06", topic |-> "Aljabar dasar"],
                    [id |-> 2, schedule_id |-> 2,
                     teaching_date |-> "2025-01-06",
                     topic |-> "Aljabar dasar"]}]
    /\ procs = <<>>

NextOwn ==
    \/ UpdateJournal
    \/ DeleteJournal
    \/ UpdateTeacher

\* journals and teacher profiles under requests of every signed-in user
SpecOwn == InitOwn /\ [][NextOwn]_vars

----------------------------------------------------------------------------
(* The attendance of the signed-in user: POST /api/attendance/my-attendance *)
(* and GET /api/attendance/my-status.  tables holds the user rows and the   *)
(* teacher rows [id, user_id].                                              *)

\* the rows of today, local time, of the teacher
TodayOf(teacher_id) ==
    {row \in teacherAttendance :
        /\ row.teacher_id = teacher_id
        /\ row.timestamp >= StartOfDay(now)
        /\ row.timestamp < StartOfTomorrow(now)}

\* service getTodayAttendanceStatus(userId, userType); a student row is
\* looked up in prisma.student, which holds no row of these users
getTodayAttendanceStatus(userId, userType) ==
    LET teacher == {t \in tables["teacher"] : t.user_id = userId}
        attendance ==
            IF userType = "teacher" /\ teacher # {}
            THEN TodayOf((CHOOSE t \in teacher : TRUE).id)
            ELSE {}
    IN  [hasCheckedIn |-> \E row \in attendance : row.status = "Masuk",
         hasCheckedOut |-> \E row \in attendance : row.status = "Pulang"]

MineRest == <<tz, schedules, nextId, studentAttendance, tables, procs>>

\* POST /api/attendance/my-attendance by a signed-in user
PostMyAttendance ==
    /\ attNextId <= MaxAtt
    /\ \E user \in SignedIn, status \in Statuses, t \in Later :
          /\ recordMyAttendance(user.role, status, t)
          /\ obs' = [user |-> user.id, status |-> status]
    /\ UNCHANGED MineRest

\* controller getTodayAttendanceStatus: an admin is looked up as a teacher
AnswerMyStatus(user) ==
    /\ resp' = AttResponse("getTodayAttendanceStatus", 200,
                   "Today's attendance status retrieved successfully",
                   getTodayAttendanceStatus(user.id,
                       IF user.role = "admin" THEN "teacher" ELSE user.role))
    /\ UNCHANGED <<teacherAttendance, attNextId, now, obs>>

\* GET /api/attendance/my-status by a signed-in user
GetMyStatus ==
    /\ \E user \in SignedIn : AnswerMyStatus(user)
    /\ UNCHANGED MineRest

InitMine ==
    /\ InitStore
    /\ tz \in TZOffsets
    /\ now = DaySlots
    /\ tables =
         [t \in {"user", "teacher"} |->
            IF t = "user"
            THEN {[id |-> 1, username |-> "budi", role |-> "teacher",
                   is_active |-> TRUE],
                  [id |-> 2, username |-> "siti", role |-> "teacher",
                   is_active |-> TRUE],
                  [id |-> 3, username |-> "admin", role |-> "admin",
                   is_active |-> TRUE],
                  [id |-> 4, username |-> "wati", role |-> "student",
                   is_active |-> TRUE]}
            ELSE {[id |-> 1, user_id |-> 1], [id |-> 2, user_id |-> 2]}]
    /\ procs = <<>>

NextMine ==
    \/ PostMyAttendance
    \/ GetMyStatus
    \/ Tick

\* signed-in users recording and reading their own attendance
SpecMine == InitMine /\ [][NextMine]_vars

----------------------------------------------------------------------------
(* GET /api/attendance/summary.  The query is [date, type], each Undefined  *)
(* when absent.                                                             *)

\* ISO dates, the n-th being day n - 1 of the clock
DateStr == <<"1970-01-01", "1970-01-02", "1970-01-03">>
DateStrs == {DateStr[n] : n \in 1 .. Len(DateStr)}

\* new Date("YYYY-MM-DD"): a date without a time is read as UTC midnight
ParseDate(s) ==
    (CHOOSE n \in 1 .. Len(DateStr) : DateStr[n] = s) * DaySlots - DaySlots

SummaryTypes == {"all", "teacher", "student"}

SummaryQueries ==
    [date : {Undefined} \cup {Some(d) : d \in DateStrs},
     type : {Undefined} \cup {Some(t) : t \in SummaryTypes}]

\* attendanceSchemas.getAttendanceReport under validate's options
\* (allowUnknown false, stripUnknown true): type is one of teacher and
\* student and defaults to student; date is no key of the schema and is
\* stripped from the value
getAttendanceReportQuery(query) ==
    IF query.type = Some("all")
    THEN [error |-> "type must be one of [teacher, student]", value |-> query]
    ELSE [error |-> "none",
          value |-> [date |-> Undefined,
                     type |-> IF query.type = Undefined THEN Some("student")
                              ELSE query.type]]

\* prisma groupBy status over the rows of [targetDate, nextDate)
StatusCount(rows, targetDate, status) ==
    Cardinality({row \in rows : /\ row.status = status
                                /\ row.timestamp >= targetDate
                                /\ row.timestamp < targetDate + DaySlots})

StatusCounts(rows, targetDate) ==
    [masuk |-> StatusCount(rows, targetDate, "Masuk"),
     pulang |-> StatusCount(rows, targetDate, "Pulang")]

\* service getAttendanceSummary(date, type): summary.teachers and
\* summary.students, each NULL when the type leaves it out
getAttendanceSummary(date, type) ==
    LET targetDate == StartOfDay(ParseDate(date))
    IN  [teachers |-> IF type \in {"teacher", "all"}
                      THEN <<StatusCounts(teacherAttendance, targetDate)>>
                      ELSE <<>>,
         students |-> IF type \in {"student", "all"}
                      THEN <<StatusCounts(studentAttendance, targetDate)>>
                      ELSE <<>>]

\* controller getAttendanceSummary on req.query
SummaryAnswer(query) ==
    IF query.date = Undefined
    THEN AttResponse("getAttendanceSummary", 400,
                     "Date parameter is required", NULL)
    ELSE AttResponse("getAttendanceSummary", 200,
             "Attendance summary retrieved successfully",
             getAttendanceSummary(query.date[1],
                 IF query.type = Undefined THEN "all" ELSE query.type[1]))

\* GET /api/attendance/summary of a signed-in user of the role: authorize,
\* validate on the query, controller.  validate ends with req.query = value;
\* `assignable` is whether the express of the build lets req.query be
\* replaced (a plain property) or keeps the parsed query (a getter only)
AnswerSummary(role, query, assignable) ==
    LET checked == getAttendanceReportQuery(query)
    IN  /\ resp' =
             IF role \notin {"admin", "teacher"}
             THEN AttResponse("getAttendanceSummary", 403,
                      "Access denied - insufficient permissions", NULL)
             ELSE IF checked.error # "none"
             THEN AttResponse("getAttendanceSummary", 400, checked.error, NULL)
             ELSE SummaryAnswer(IF assignable THEN checked.value ELSE query)
        /\ UNCHANGED <<teacherAttendance, attNextId, now>>

GetAttendanceSummary ==
    /\ \E role \in Roles, query \in SummaryQueries, assignable \in BOOLEAN :
          AnswerSummary(role, query, assignable)
    /\ obs' = NoObs
    /\ UNCHANGED <<tz, schedules, nextId, studentAttendance, tables, procs>>

NextSummary ==
    \/ RecordTeacherAttendance
    \/ GetAttendanceSummary
    \/ Tick

\* teachers recording attendance and summaries being asked for
SpecSummary == InitAtt /\ [][NextSummary]_vars

----------------------------------------------------------------------------
(* The unauthenticated endpoints GET /api/health, GET /api and GET /, and   *)
(* the rate limiter in front of /api/.  tables holds the limiter's record   *)
(* of the client: [hits, resetTime].                                        *)

\* express-rate-limit: the client's hits of the current window after one
\* more request; a window that has run out starts again
Hit ==
    IF now >= tables.resetTime
    THEN [hits |-> 1, resetTime |-> now + WindowSlots]
    ELSE [tables EXCEPT !.hits = @ + 1]

\* app.use('/api/', limiter): beyond max the limiter answers 429 itself
Limited(op, answer) ==
    /\ tables' = Hit
    /\ resp' = IF Hit.hits > RateLimitMax
               THEN AttResponse(op, 429, "Too many requests",
                        [error |-> "Too many requests from this IP, please try again later."])
               ELSE answer

\* router.get('/health')
AnswerHealth ==
    Limited("GET /api/health",
            AttResponse("GET /api/health", 200,
                        "STMADB Portal Backend is running",
                        [status |-> "OK",
                         message |-> "STMADB Portal Backend is running"]))

\* router.get('/')
AnswerApi ==
    Limited("GET /api",
            AttResponse("GET /api", 200,
                        "Welcome to STM ADB Portal Backend API",
                        [message |-> "Welcome to STM ADB Portal Backend API",
                         version |-> "1.0.0"]))

\* app.get('/'): not under /api/, so not counted by the limiter
AnswerRoot ==
    /\ resp' = AttResponse("GET /", 200, "STMADB Portal Backend API",
                           [message |-> "STMADB Portal Backend API",
                            version |-> "1.0.0", status |-> "Running"])
    /\ UNCHANGED tables

HealthRest == <<tz, now, schedules, nextId, teacherAttendance,
                studentAttendance, attNextId, obs, procs>>

GetHealth ==
    /\ tables.hits <= RateLimitMax
    /\ AnswerHealth
    /\ UNCHANGED HealthRest

GetApi ==
    /\ tables.hits <= RateLimitMax
    /\ AnswerApi
    /\ UNCHANGED HealthRest

GetRoot ==
    /\ AnswerRoot
    /\ UNCHANGED HealthRest

\* time passes between requests
HealthTick ==
    /\ now < Horizon
    /\ now' = now + 1
    /\ UNCHANGED <<tz, schedules, nextId, teacherAttendance,
                   studentAttendance, attNextId, tables, resp, obs, procs>>

InitHealth ==
    /\ InitStore
    /\ tz = UTC
    /\ now = DaySlots
    /\ tables = [hits |-> 0, resetTime |-> 0]
    /\ procs = <<>>

NextHealth ==
    \/ GetHealth
    \/ GetApi
    \/ GetRoot
    \/ HealthTick

\* requests to the three endpoints from one client, without a token
SpecHealth == InitHealth /\ [][NextHealth]_vars

----------------------------------------------------------------------------
(* scheduleService.getWeeklySchedule.  The filters are [class_id,           *)
(* teacher_id], each Undefined when absent.                                 *)

\* the keys of the object the service groups into
WeekKeys == {"SENIN", "SELASA", "RABU", "KAMIS", "JUMAT", "SABTU", "MINGGU"}

WeeklyFilters ==
    [class_id : {Undefined} \cup {Some(id) : id \in IdStrs(Classes)},
     teacher_id : {Undefined} \cup {Some(id) : id \in IdStrs(Teachers)}]

\* prisma.schedule.findMany({ where: whereClause })
WeeklyMatching(filters) ==
    {row \in schedules :
        /\ filters.class_id # Undefined
              => row.class_id = BigInt(filters.class_id[1])
        /\ filters.teacher_id # Undefined
              => row.teacher_id = BigInt(filters.teacher_id[1])}

\* orderBy start_time asc (rows of equal start_time by id)
RECURSIVE ByStartTime(_)
ByStartTime(rows) ==
    IF rows = {} THEN <<>>
    ELSE LET first == CHOOSE r \in rows :
                         \A o \in rows :
                            \/ r.start_time < o.start_time
                            \/ r.start_time = o.start_time /\ r.id <= o.id
         IN  <<serializeSchedule(first)>> \o ByStartTime(rows \ {first})

\* service getWeeklySchedule(filters): weeklySchedule[schedule.day_of_week]
\* is undefined for a day that is no key, push on it throws, and the catch
\* throws 'Failed to retrieve weekly schedule'
getWeeklySchedule(filters) ==
    LET found == WeeklyMatching(filters)
    IN  IF \E row \in found : row.day_of_week \notin WeekKeys
        THEN [error |-> "Failed to retrieve weekly schedule", value |-> NULL]
        ELSE [error |-> "none",
              value |-> [key \in WeekKeys |->
                            ByStartTime({row \in found :
                                            row.day_of_week = key})]]

\* controller getWeeklySchedule
AnswerWeeklySchedule(filters) ==
    LET got == getWeeklySchedule(filters)
    IN  /\ resp' = IF got.error = "none"
                   THEN Response("getWeeklySchedule", 200, "none", got.value)
                   ELSE Response("getWeeklySchedule", 500, "none", NULL)
        /\ obs' = NoObs
        /\ UNCHANGED <<schedules, nextId>>

\* GET /api/schedules/weekly
GetWeeklySchedule ==
    /\ \E filters \in WeeklyFilters : AnswerWeeklySchedule(filters)
    /\ UNCHANGED <<tz, now, teacherAttendance, studentAttendance, attNextId,
                   tables, procs>>

\* the bodies of the schedules of the week: first slot, no room
WeeklyBodies ==
    {body \in CreateBodies :
        /\ body.room = NULL
        /\ body.start_time = TimeStr[1]
        /\ body.end_time = TimeStr[2]}

WeeklyCreateSchedule ==
    /\ \E body \in WeeklyBodies : createSchedule(body)
    /\ UNCHANGED <<tz, now, teacherAttendance, studentAttendance, attNextId,
                   tables, procs>>

NextWeekly ==
    \/ WeeklyCreateSchedule
    \/ GetWeeklySchedule
    \/ DeleteSchedule

\* schedules created and deleted, and the weekly view asked for
SpecWeekly == InitSched /\ [][NextWeekly]_vars

----------------------------------------------------------------------------
(* POST /api/schedules/check-conflicts.  The body is [class_id, teacher_id, *)
(* day_of_week, start_time, end_time, room] with the times as "HH:MM:SS"    *)
(* strings.                                                                 *)

ConflictBodies ==
    [class_id : IdStrs(Classes), teacher_id : IdStrs(Teachers),
     day_of_week : Days, start_time : TimeStrs, end_time : TimeStrs,
     room : Rooms \cup {NULL}]

\* service checkScheduleConflicts(req.body, excludeId) as the controller
\* calls it: start_time and end_time are still the strings of the body, and
\* the first findMany, whose where compares the time columns with them, is
\* refused by prisma (a string that is no ISO-8601 DateTime) before any row
\* is read
checkConflictsOfBody(body, excludeId) ==
    IF body.start_time \in TimeStrs \/ body.end_time \in TimeStrs
    THEN "PrismaClientValidationError"
    ELSE checkScheduleConflicts(schedules,
             Candidate(BigInt(body.class_id), BigInt(body.teacher_id),
                       body.day_of_week, body.start_time, body.end_time,
                       body.room),
             excludeId)

\* controller checkScheduleConflicts: 409 when the message of the error has
\* 'conflict' in it, 500 otherwise.  The message of prisma's error quotes
\* the call site ('// Check teacher conflicts', 'const teacherConflicts =')
\* under its default error format and does not under the minimal one:
\* `framed` is which of the two the build has
AnswerCheckConflicts(body, excludeId, framed) ==
    LET got == checkConflictsOfBody(body, excludeId)
    IN  /\ resp' = IF got = "none"
                   THEN Response("checkScheduleConflicts", 200, "none", NULL)
                   ELSE IF got \in {"Teacher", "Class", "Room"}
                   THEN Response("checkScheduleConflicts", 409, got, NULL)
                   ELSE IF framed
                   THEN Response("checkScheduleConflicts", 409, got, NULL)
                   ELSE Response("checkScheduleConflicts", 500, "none", NULL)
        /\ obs' = NoObs
        /\ UNCHANGED <<schedules, nextId>>

CheckScheduleConflicts ==
    /\ \E body \in ConflictBodies, excludeId \in {ABSENT} \cup ScheduleIds,
          framed \in BOOLEAN :
          AnswerCheckConflicts(body, excludeId, framed)
    /\ UNCHANGED <<tz, now, teacherAttendance, studentAttendance, attNextId,
                   tables, procs>>

NextConflicts ==
    \/ WeeklyCreateSchedule
    \/ CheckScheduleConflicts
    \/ DeleteSchedule

\* schedules created and deleted, and candidates checked for conflicts
SpecConflicts == InitSched /\ [][NextConflicts]_vars

----------------------------------------------------------------------------
(* Accounts switched off and on while clients hold tokens.  obs is the      *)
(* history [tokens, toggled, before]: the tokens issued so far, the id the  *)
(* last request toggled ("none" when it was no toggle that succeeded) and   *)
(* the user rows before that toggle.                                        *)

\* the Authorization header of a request that carries the token: a token
\* signed with another secret than config.jwt.secret does not verify
BearerOf(token) ==
    IF token.secret = "secret" THEN token.payload.userId ELSE INVALID

\* authService.refreshToken: whatever is thrown inside is replaced by
\* 'Invalid or expired refresh token'
refreshToken(token) ==
    LET found == IF token.secret # "refreshSecret" THEN {}
                 ELSE ActiveUser(tables["user"], BigInt(token.payload.userId))
    IN  IF found = {} THEN Threw("Invalid or expired refresh token")
        ELSE LET user == CHOOSE u \in found : TRUE
             IN  Returned(
                     [tokens |->
                         {generateAccessToken(createTokenPayload(user)),
                          generateRefreshToken(createTokenPayload(user))}],
                     tables)

\* AuthController.refreshToken, under asyncHandler
AnswerRefreshToken(token) ==
    LET got == refreshToken(token)
    IN  /\ tables' = got.after
        /\ resp' = IF got.error = "none"
                   THEN [LoginResponse(200, "Token refreshed successfully",
                                       got.value.tokens)
                            EXCEPT !.op = "refreshToken"]
                   ELSE [LoginResponse(errorHandler("refreshToken", got).status,
                                       got.error, {})
                            EXCEPT !.op = "refreshToken"]

\* a request to a route behind authenticate that carries the token; past
\* authenticate the route's own handlers answer
AnswerAuthenticated(token) ==
    LET seen == authenticate(tables["user"], BearerOf(token))
    IN  /\ resp' = IF seen.status # 0
                   THEN LoginResponse(seen.status, seen.message, {})
                   ELSE LoginResponse(200, "next", {})
        /\ UNCHANGED tables

NoHistory == [tokens |-> {}, toggled |-> "none", before |-> {}]

Issued(tokens) ==
    [tokens |-> obs.tokens \cup tokens, toggled |-> "none", before |-> {}]

ActiveRest == <<tz, now, schedules, nextId, teacherAttendance,
                studentAttendance, attNextId, procs>>

\* POST /api/auth/login
ActiveLogin ==
    /\ \E username \in Usernames, password \in Passwords :
          AnswerLogin(username, password)
    /\ obs' = Issued(resp'.tokens)
    /\ UNCHANGED ActiveRest

\* POST /api/auth/refresh with a token issued before
ActiveRefresh ==
    /\ \E token \in obs.tokens : AnswerRefreshToken(token)
    /\ obs' = Issued(resp'.tokens)
    /\ UNCHANGED ActiveRest

\* a request behind authenticate with a token issued before
ActiveRequest ==
    /\ \E token \in obs.tokens : AnswerAuthenticated(token)
    /\ obs' = Issued({})
    /\ UNCHANGED ActiveRest

\* PATCH /api/users/:id/toggle-status
ActiveToggle ==
    /\ \E id \in IdStrs(1 .. MaxUsers + 1) :
          /\ AnswerToggleUserStatus(id)
          /\ obs' = [tokens |-> obs.tokens,
                     toggled |-> IF resp'.status = 200 THEN id ELSE "none",
                     before |-> tables["user"]]
    /\ UNCHANGED ActiveRest

InitActive ==
    /\ tz = UTC
    /\ now = DaySlots
    /\ schedules = {}
    /\ nextId = 1
    /\ teacherAttendance = {}
    /\ studentAttendance = {}
    /\ attNextId = 1
    /\ resp = NoResponse
    /\ obs = NoHistory
    /\ tables = [t \in {"user"} |-> SeedUsers]
    /\ procs = <<>>

NextActive ==
    \/ ActiveLogin
    \/ ActiveRefresh
    \/ ActiveRequest
    \/ ActiveToggle
    \/ LoginTick

\* logins, refreshes and authenticated requests between toggles
SpecActive == InitActive /\ [][NextActive]_vars

----------------------------------------------------------------------------
(* Deleting teachers, classes and subjects that schedules refer to.  The    *)
(* tables hold teacher rows [id], class rows [id, homeroom_teacher_id,      *)
(* counselor_id], subject rows [id] and no exam schedules.                  *)

SubjectById(id) == {row \in tables["subject"] : row.id = id}

\* deleteTeacher with the test of existingTeacher.schedules left out
deleteTeacherUnchecked(id) ==
    IF TeacherById(BigInt(id)) = {} THEN Threw("Teacher not found")
    ELSE IF {c \in tables["class"] : c.homeroom_teacher_id = BigInt(id)} # {}
         THEN Threw("Cannot delete teacher who is assigned as homeroom teacher")
    ELSE IF {c \in tables["class"] : c.counselor_id = BigInt(id)} # {}
         THEN Threw("Cannot delete teacher who is assigned as counselor")
    ELSE Returned([message |-> "Teacher deleted successfully"],
                  [tables EXCEPT !["teacher"] = @ \ TeacherById(BigInt(id))])

\* teacherService.deleteTeacher
deleteTeacher(id) ==
    IF TeacherById(BigInt(id)) = {} THEN Threw("Teacher not found")
    ELSE IF {c \in tables["class"] : c.homeroom_teacher_id = BigInt(id)} # {}
         THEN Threw("Cannot delete teacher who is assigned as homeroom teacher")
    ELSE IF {c \in tables["class"] : c.counselor_id = BigInt(id)} # {}
         THEN Threw("Cannot delete teacher who is assigned as counselor")
    ELSE IF {row \in schedules : row.teacher_id = BigInt(id)} # {}
         THEN Threw("Cannot delete teacher who has teaching schedules")
    ELSE Returned([message |-> "Teacher deleted successfully"],
                  [tables EXCEPT !["teacher"] = @ \ TeacherById(BigInt(id))])

\* DELETE /api/teachers/:id: TeacherController.deleteTeacher and its catch
AnswerDeleteTeacher(id) ==
    LET got == deleteTeacher(id)
    IN  /\ tables' = got.after
        /\ resp' = IF got.error = "none"
                   THEN AttResponse("deleteTeacher", 200,
                            "Teacher deleted successfully", NULL)
                   ELSE IF got.error = "Teacher not found"
                   THEN AttResponse("deleteTeacher", 404, "Teacher not found",
                                    NULL)
                   ELSE AttResponse("deleteTeacher", 400, got.error, NULL)

\* subjectService.deleteSubject.  `ApiError` is required from utils/helpers,
\* which exports no such name: `new ApiError(...)` throws a TypeError in the
\* place of the error it was to build.
deleteSubject(id) ==
    IF SubjectById(BigInt(id)) = {} THEN Threw("ApiError is not a constructor")
    ELSE IF \/ {row \in schedules : row.subject_id = BigInt(id)} # {}
            \/ tables["examSchedule"] # {}
         THEN Threw("ApiError is not a constructor")
    ELSE Returned([message |-> "Subject deleted successfully"],
                  [tables EXCEPT !["subject"] = @ \ SubjectById(BigInt(id))])

\* the statuses an error of deleteSubject can be answered with
SubjectErrorStatuses == {400, 404, 500}

\* DELETE /api/subjects/:id.  The controller answers an error of the service
\* with an error status.
AnswerDeleteSubject(id, status) ==
    LET got == deleteSubject(id)
    IN  /\ tables' = got.after
        /\ resp' = IF got.error = "none"
                   THEN AttResponse("deleteSubject", 200,
                            "Subject deleted successfully", NULL)
                   ELSE AttResponse("deleteSubject", status, got.error, NULL)

\* the foreign keys of Schedule: its class, subject and teacher are rows
ForeignKeysHold(body) ==
    /\ ClassById(BigInt(body.class_id)) # {}
    /\ SubjectById(BigInt(body.subject_id)) # {}
    /\ TeacherById(BigInt(body.teacher_id)) # {}

\* POST /api/schedules: prisma.schedule.create fails on a foreign key after
\* the conflicts were checked, and the controller answers 500
AnswerCreateScheduleOfRows(body) ==
    IF \/ ForeignKeysHold(body)
       \/ checkScheduleConflicts(schedules, CreateData(body), ABSENT) # "none"
    THEN createSchedule(body)
    ELSE /\ nextId <= MaxId
         /\ resp' = Response("createSchedule", 500, "none", NULL)
         /\ obs' = NoObs
         /\ UNCHANGED <<schedules, nextId>>

RefsRest == <<tz, now, teacherAttendance, studentAttendance, attNextId, procs>>

RefsCreateSchedule ==
    /\ \E body \in WeeklyBodies : AnswerCreateScheduleOfRows(body)
    /\ UNCHANGED tables
    /\ UNCHANGED RefsRest

RefsDeleteSchedule ==
    /\ \E id \in ScheduleIds : deleteSchedule(id)
    /\ UNCHANGED <<nextId, tables>>
    /\ UNCHANGED RefsRest

RefsDeleteTeacher ==
    /\ \E id \in IdStrs(Teachers) : AnswerDeleteTeacher(id)
    /\ obs' = NoObs
    /\ UNCHANGED <<schedules, nextId>>
    /\ UNCHANGED RefsRest

RefsDeleteClass ==
    /\ \E id \in IdStrs(Classes) : AnswerDeleteClass(id)
    /\ obs' = NoObs
    /\ UNCHANGED <<schedules, nextId>>
    /\ UNCHANGED RefsRest

RefsDeleteSubject ==
    /\ \E id \in IdStrs(Subjects), status \in SubjectErrorStatuses :
          AnswerDeleteSubject(id, status)
    /\ obs' = NoObs
    /\ UNCHANGED <<schedules, nextId>>
    /\ UNCHANGED RefsRest

\* every teacher, class and subject is a row; class 1 has the student of
\* Students and teacher 1 as its homeroom teacher
InitRefs ==
    /\ InitStore
    /\ tz = UTC
    /\ now = DaySlots
    /\ tables = [teacher |-> {[id |-> n] : n \in Teachers},
                 class |-> {[id |-> n,
                             homeroom_teacher_id |-> IF n = 1 THEN 1 ELSE 0,
                             counselor_id |-> 0] : n \in Classes},
                 subject |-> {[id |-> n] : n \in Subjects},
                 examSchedule |-> {}]
    /\ procs = <<>>

NextRefs ==
    \/ RefsCreateSchedule
    \/ RefsDeleteSchedule
    \/ RefsDeleteTeacher
    \/ RefsDeleteClass
    \/ RefsDeleteSubject

\* schedules created and deleted while teachers, classes and subjects are
\* deleted
SpecRefs == InitRefs /\ [][NextRefs]_vars

\* the bodies of an update that submit a time and nothing else
TimePatches ==
    {body \in UpdateBodies :
        body.start_time # ABSENT \/ body.end_time # ABSENT}

ZoneCreateSchedule ==
    /\ \E body \in WeeklyBodies : createSchedule(body)
    /\ UNCHANGED <<tz, now, teacherAttendance, studentAttendance, attNextId,
                   tables, procs>>

ZoneUpdateSchedule ==
    /\ \E id \in ScheduleIds, body \in TimePatches : updateSchedule(id, body)
    /\ UNCHANGED <<tz, now, nextId, teacherAttendance, studentAttendance,
                   attNextId, tables, procs>>

NextZoneWrites ==
    \/ ZoneCreateSchedule
    \/ ZoneUpdateSchedule
    \/ DeleteSchedule

\* schedules created, given other times and deleted on a server in any
\* timezone
SpecZoneWrites == InitZone /\ [][NextZoneWrites]_vars

----------------------------------------------------------------------------
(* Claims on the schedule service *)

SameDayShared(r1, r2) ==
    /\ r1.day_of_week = r2.day_of_week
    /\ \/ r1.teacher_id = r2.teacher_id
       \/ r1.class_id = r2.class_id
       \/ (r1.room # NULL /\ r1.room = r2.room)

\* C1: no two stored schedules of the same day that share a teacher, a class
\* or a non-null room have overlapping intervals (s1 < e2 and s2 < e1).
C1_NoStoredOverlap ==
    \A r1 \in schedules : \A r2 \in schedules :
        (r1.id # r2.id /\ SameDayShared(r1, r2)) =>
            ~Overlap(r1.start_time, r1.end_time, r2.start_time, r2.end_time)

\* two schedules of one teacher on one day, back to back, both stored
C1_Witness ==
    \E r1 \in schedules : \E r2 \in schedules :
        /\ r1.id # r2.id
        /\ SameDayShared(r1, r2)
        /\ r1.teacher_id = r2.teacher_id
        /\ r1.start_time < r1.end_time
        /\ r1.end_time = r2.start_time
        /\ r2.start_time < r2.end_time

Writes == {"createSchedule", "updateSchedule"}

C6_FilterIsOverlap ==
    resp.op \in Writes => obs.selected = obs.overlapping

\* C7 as claimed: an update of a stored schedule succeeds whenever no other
\* stored schedule collides with the values that result from it.
C7_UpdateSucceeds ==
    (resp.op = "updateSchedule" /\ resp.status # 404 /\ obs.kinds = {}) =>
        resp.status = 200

RoundTripFields == {"class_id", "subject_id", "teacher_id", "day_of_week",
                    "start_time", "end_time", "room"}

\* C10 as claimed: when createSchedule has succeeded, getScheduleById with the
\* returned id returns the submitted class, subject, teacher, day, start time,
\* end time and room, in any server timezone.
C10_RoundTrip ==
    [][(/\ resp.op = "createSchedule"
        /\ resp.status = 201
        /\ resp'.op = "getScheduleById"
        /\ resp'.status = 200
        /\ resp'.body.id = resp.body.id)
       => \A f \in RoundTripFields : resp'.body[f] = obs.request[f]]_vars

\* the stored row a finished request created
RowOf(p) == CHOOSE row \in schedules : row.id = procs[p].id

DoubleBooked(p, q) ==
    /\ p # q
    /\ procs[p].status = 201
    /\ procs[q].status = 201
    /\ RowOf(p).day_of_week = RowOf(q).day_of_week
    /\ RowOf(p).teacher_id = RowOf(q).teacher_id
    /\ Overlap(RowOf(p).start_time, RowOf(p).end_time,
               RowOf(q).start_time, RowOf(q).end_time)

\* C3: the conflict check and the insert are separate steps, so two concurrent
\* creates for overlapping slots of one teacher on one day can both be stored;
\* and this happens only in that window: whenever two such rows are stored,
\* each request ran its teacher query before the other's row was inserted.
C3_DoubleBookingOnlyByRace ==
    \A p \in Procs : \A q \in Procs :
        DoubleBooked(p, q) =>
            (procs[q].id \notin procs[p].seen /\ procs[p].id \notin procs[q].seen)

\* both requests were answered 201 and their overlapping rows are stored
C3_Witness ==
    \E p \in Procs : \E q \in Procs :
        /\ DoubleBooked(p, q)
        /\ RowOf(p).start_time < RowOf(p).end_time
        /\ RowOf(q).start_time < RowOf(q).end_time
        /\ procs[p].seen = {}
        /\ procs[q].seen = {}

----------------------------------------------------------------------------
(* Claims on the attendance service *)

SameDayPair(table, who) ==
    {pair \in table \X table :
        /\ pair[1] # pair[2]
        /\ pair[1][who] = pair[2][who]
        /\ pair[1].status = pair[2].status
        /\ LocalDay(pair[1].timestamp) = LocalDay(pair[2].timestamp)}

\* C4: when the recording requests are handled one after the other, no
\* teacher and no student has two attendance records of the same status
\* whose timestamps fall on the same calendar day of the server.
C4_OnePerDay ==
    /\ SameDayPair(teacherAttendance, "teacher_id") = {}
    /\ SameDayPair(studentAttendance, "student_id") = {}

\* a second recording of the day was refused, and the teacher holds records
\* of that status on two different days
C4_Witness ==
    /\ resp.op = "recordTeacherAttendance"
    /\ resp.status = 400
    /\ resp.message = AlreadyRecorded("Teacher", obs.request.status)
    /\ \E a \in teacherAttendance, b \in teacherAttendance :
          /\ a.teacher_id = b.teacher_id
          /\ a.status = b.status
          /\ LocalDay(a.timestamp) # LocalDay(b.timestamp)

\* C8: recordTeacherAttendance answers 201 and adds exactly one record
\* (teacher, status, time of the insert) if and only if the teacher exists
\* and holds no record of that status on the present day; otherwise it is
\* refused and the records are unchanged. A record of an earlier day does
\* not count.
C8_RecordIffFree ==
    resp.op = "recordTeacherAttendance" =>
        /\ (resp.status = 201) <=> (obs.known /\ ~obs.recorded)
        /\ resp.status = 201 =>
              /\ obs.removed = {}
              /\ Cardinality(obs.added) = 1
              /\ \A row \in obs.added :
                    /\ row.teacher_id = BigInt(obs.request.id)
                    /\ row.status = obs.request.status
                    /\ row.timestamp = now
        /\ resp.status # 201 => (resp.status = 400 /\ ~obs.changed)

\* a recording succeeded although the teacher holds a record of that status
\* from an earlier day
C8_Witness ==
    /\ resp.op = "recordTeacherAttendance"
    /\ resp.status = 201
    /\ \E row \in teacherAttendance :
          /\ row.teacher_id = BigInt(obs.request.id)
          /\ row.status = obs.request.status
          /\ LocalDay(row.timestamp) < obs.today

AttRowOf(p) == CHOOSE row \in teacherAttendance : row.id = procs[p].id

TwiceRecorded(p, q) ==
    /\ p # q
    /\ procs[p].id # 0
    /\ procs[q].id # 0
    /\ AttRowOf(p).teacher_id = AttRowOf(q).teacher_id
    /\ AttRowOf(p).status = AttRowOf(q).status
    /\ LocalDay(AttRowOf(p).timestamp) = LocalDay(AttRowOf(q).timestamp)

\* C5: the duplicate check and the insert are separate steps. Two concurrent
\* requests leave two same-status records of one teacher on one day only by
\* each running its check before the other's insert; a request whose check
\* ran after the other's insert never adds the second record.
C5_TwiceOnlyByRace ==
    \A p \in Procs : \A q \in Procs :
        TwiceRecorded(p, q) =>
            (procs[q].id \notin procs[p].seen /\ procs[p].id \notin procs[q].seen)

\* both requests found no record and both inserted
C5_Witness ==
    \E p \in Procs : \E q \in Procs :
        /\ TwiceRecorded(p, q)
        /\ procs[p].error = "none"
        /\ procs[q].error = "none"
        /\ procs[p].seen = {}
        /\ procs[q].seen = {}

----------------------------------------------------------------------------
(* Claims on the paginated lists *)

ListOps == {"getUsers", "getAllTeachers", "getAllStudents", "getClasses",
            "getSubjects", "getAllSchedules", "getAllJournals",
            "getTeacherAttendance", "getStudentAttendance"}

\* the least number of pages of `limit` rows that hold `total` rows
PagesFor(total, limit) ==
    CHOOSE n \in 0 .. total : n * limit >= total /\ (n = 0 \/ (n - 1) * limit < total)

\* C9: the metadata of every paginated list has total equal to the number
\* of rows matching the filter, totalPages = ceil(total / limit), hasNext
\* true exactly when page < totalPages and hasPrev true exactly when
\* page > 1.
C9_MetaConsistent ==
    resp.op \in ListOps =>
        LET meta == resp.body.pagination
        IN  /\ meta.total = Cardinality(obs.matching)
            /\ meta.totalPages = PagesFor(meta.total, meta.limit)
            /\ meta.hasNext <=> (meta.page < meta.totalPages)
            /\ meta.hasPrev <=> (meta.page > 1)

----------------------------------------------------------------------------
(* Claims on authentication and authorization *)

Done == Len(procs) = 1 /\ procs[1].pc = "done"

\* what the request's bearer token stands for, read off the user table the
\* request met
TokenUser(req) ==
    {u \in req.before["user"] :
        /\ req.authHeader \notin {ABSENT, INVALID}
        /\ toString(u.id) = req.authHeader
        /\ u.is_active}

Unauthenticated(req) == TokenUser(req) = {}

Disallowed(req) ==
    /\ TokenUser(req) # {}
    /\ \A u \in TokenUser(req) : u.role \notin req.roles

\* position of the first handler of that kind among those that ran
FirstRan(req, kind) ==
    IF \E i \in DOMAIN req.ran : req.ran[i] = kind
    THEN CHOOSE i \in DOMAIN req.ran :
            /\ req.ran[i] = kind
            /\ \A j \in DOMAIN req.ran : req.ran[j] = kind => i <= j
    ELSE 0

\* C11: on every guarded route authenticate and authorize have both run
\* before validate runs and before the controller touches the store: an
\* unauthenticated request is answered 401 and one of a role not allowed is
\* answered 403, whatever its body, never 400.
C11_AuthBeforeValidation ==
    Len(procs) = 1 =>
        LET req == procs[1]
        IN  /\ \A kind \in {"validate", "controller"} :
                  FirstRan(req, kind) # 0 =>
                      /\ FirstRan(req, "authenticate") # 0
                      /\ FirstRan(req, "authorize") # 0
                      /\ FirstRan(req, "authenticate") < FirstRan(req, kind)
                      /\ FirstRan(req, "authorize") < FirstRan(req, kind)
            /\ (req.pc = "done" /\ Unauthenticated(req)) => resp.status = 401
            /\ (req.pc = "done" /\ Disallowed(req)) => resp.status = 403

\* C12: the controller of a guarded route runs only for a token that
\* verifies and names an existing active user whose role the route allows;
\* a missing or invalid token or an inactive user is answered 401, a role
\* not allowed 403, and in both cases the store is unchanged.
C12_ControllerOnlyIfAllowed ==
    Done =>
        LET req == procs[1]
        IN  /\ FirstRan(req, "controller") # 0 =>
                  (~Unauthenticated(req) /\ ~Disallowed(req))
            /\ Unauthenticated(req) =>
                  (resp.status = 401 /\ tables = req.before)
            /\ Disallowed(req) =>
                  (resp.status = 403 /\ tables = req.before)

----------------------------------------------------------------------------
(* Claims on the answers to missing ids and duplicate keys *)

\* a step that handles a get, update or delete of schedule `id`
ScheduleRequest(id) ==
    \/ getScheduleById(id)
    \/ deleteSchedule(id)
    \/ \E body \in UpdateBodies : updateSchedule(id, body)

\* a step that handles a get, update or delete of class `id`
ClassRequest(id) ==
    \/ AnswerGetClassById(id)
    \/ AnswerDeleteClass(id)
    \/ \E body \in ClassPatches : AnswerUpdateClass(id, body)

\* C13: a get, update or delete addressed to a schedule id or a class id
\* that does not exist is answered 404 and changes nothing in the store.
C13_MissingIdIs404 ==
    [][\A id \in ScheduleIds :
          /\ (ScheduleById(schedules, BigInt(id)) = {} /\ ScheduleRequest(id))
                => (resp'.status = 404 /\ schedules' = schedules)
          /\ (ClassById(BigInt(id)) = {} /\ ClassRequest(id))
                => (resp'.status = 404 /\ tables' = tables)]_vars

\* a step that handles a create whose unique key is already stored
DuplicateCreate ==
    \/ \E body \in UserBodies :
          /\ \E u \in tables["user"] : u.username = body.username
          /\ AnswerCreateUser(body)
    \/ \E body \in ClassBodies :
          /\ \E row \in tables["class"] :
                /\ row.class_name = body.class_name
                /\ row.grade_level = body.grade_level
          /\ AnswerCreateClass(body)
    \/ \E body \in JournalBodies :
          /\ \E j \in tables["teachingJournal"] :
                /\ j.schedule_id = BigInt(body.schedule_id)
                /\ j.teaching_date = body.teaching_date
          /\ AnswerCreateJournal(body)

\* C14: a create that repeats a stored unique key (username; class name and
\* grade level; journal schedule and date) is answered 409 or 400 and adds
\* nothing to the store.
C14_DuplicateIs409Or400 ==
    [][DuplicateCreate =>
          (resp'.status \in {409, 400} /\ tables' = tables)]_vars

----------------------------------------------------------------------------
(* Claims on login *)

\* the attempt names no account, a wrong password or an inactive account
BadLogin(username, password) ==
    \/ \A u \in tables["user"] : u.username # username
    \/ \E u \in tables["user"] :
          /\ u.username = username
          /\ (u.password # hashPassword(password) \/ ~u.is_active)

\* C15: a login with an unknown username, a wrong password or an inactive
\* account is answered 401, issues no tokens and leaves the user records,
\* last_login included, unchanged.
C15_BadLoginIs401 ==
    [][\A username \in Usernames \cup {"wati"}, password \in Passwords :
          (BadLogin(username, password) /\ AnswerLogin(username, password))
              => /\ resp'.status = 401
                 /\ resp'.tokens = {}
                 /\ tables' = tables]_vars

----------------------------------------------------------------------------
(* Claims on ownership *)

\* the teacher profiles linked to the user
ProfilesOf(user) == {t \in tables["teacher"] : t.user_id = user.id}

\* the journal's schedule belongs to a teacher profile of the user
OwnJournal(user, id) ==
    \E j \in JournalById(BigInt(id)), s \in tables["schedule"],
       t \in ProfilesOf(user) :
          j.schedule_id = s.id /\ s.teacher_id = t.id

OwnProfile(user, id) == \E t \in ProfilesOf(user) : t.id = BigInt(id)

TeacherUsers == {u \in SignedIn : u.role = "teacher"}

Refused == resp'.status >= 400 /\ tables' = tables

\* C16: a teacher's update or delete of a journal whose schedule is not of
\* the teacher's own profile, and a teacher's update of another teacher's
\* profile, are refused and change nothing.
C16_TeacherOnlyOwn ==
    [][\A user \in TeacherUsers, id \in IdStrs(1 .. MaxId + 1),
          valid \in BOOLEAN :
          /\ \A body \in JournalPatches :
                (~OwnJournal(user, id) /\ PutJournal(user, id, valid, body))
                    => Refused
          /\ (~OwnJournal(user, id) /\ DelJournal(user, id, valid))
                => Refused
          /\ \A body \in TeacherPatches :
                (~OwnProfile(user, id) /\ PutTeacher(user, id, valid, body))
                    => Refused]_vars

----------------------------------------------------------------------------
(* Claims on the attendance of the signed-in user *)

\* the last request was a my-attendance of the user, answered 201
JustRecorded(user, status) ==
    /\ resp.op = "recordMyAttendance"
    /\ resp.status = 201
    /\ obs = [user |-> user.id, status |-> status]

\* C17: a teacher's POST /api/attendance/my-attendance records for the
\* teacher profile linked to that user and no other, and the GET
\* /api/attendance/my-status that follows reports hasCheckedIn after 'Masuk'
\* and hasCheckedOut after 'Pulang'.
C17_MyAttendanceIsMine ==
    [][\A user \in TeacherUsers, status \in Statuses :
          /\ (\E t \in Later : recordMyAttendance(user.role, status, t)
                /\ obs' = [user |-> user.id, status |-> status])
                => \A row \in teacherAttendance' \ teacherAttendance :
                      \E p \in ProfilesOf(user) : row.teacher_id = p.id
          /\ (JustRecorded(user, status) /\ AnswerMyStatus(user))
                => /\ status = "Masuk" => resp'.body.hasCheckedIn
                   /\ status = "Pulang" => resp'.body.hasCheckedOut]_vars

----------------------------------------------------------------------------
(* Claims on the attendance summary *)

\* the teacher rows of the local day that starts at the UTC midnight of D
RowsOn(d, status) ==
    {row \in teacherAttendance :
        /\ row.status = status
        /\ row.timestamp >= StartOfDay(ParseDate(d))
        /\ row.timestamp < StartOfTomorrow(ParseDate(d))}

\* C18: GET /api/attendance/summary?date=D by an admin or a teacher with a
\* valid ISO date D passes validation, reaches the summary computation with
\* D and is answered 200 with the Masuk and Pulang counts of D.
C18_SummaryAnswered ==
    [][\A role \in {"admin", "teacher"}, d \in DateStrs,
          assignable \in BOOLEAN :
          AnswerSummary(role, [date |-> Some(d), type |-> Undefined],
                        assignable)
              => /\ resp'.status = 200
                 /\ resp'.body.teachers =
                       <<[masuk |-> Cardinality(RowsOn(d, "Masuk")),
                          pulang |-> Cardinality(RowsOn(d, "Pulang"))]>>]_vars

----------------------------------------------------------------------------
(* Claims on bulk recording *)

\* teacher records of distinct teachers, none of whom has the record today
FreshTeacherRecords(records) ==
    /\ \A i \in 1 .. Len(records) :
          /\ records[i].type = "teacher"
          /\ BigInt(records[i].id) \in Teachers
          /\ existingTeacherAttendance(BigInt(records[i].id),
                                       records[i].status) = {}
    /\ \A i, j \in 1 .. Len(records) :
          records[i].id = records[j].id => i = j

\* C19: a bulk-record of N teacher records of distinct existing teachers with
\* no record today creates exactly N attendance records and reports success
\* for each of them.
C19_BulkRecordsAll ==
    [][\A records \in SeqsUpTo(BulkRecords, MaxBulk) \ {<<>>} :
          (FreshTeacherRecords(records) /\ AnswerBulkRecordAttendance(records))
              => /\ Cardinality(teacherAttendance' \ teacherAttendance)
                       = Len(records)
                 /\ \A i \in 1 .. Len(records) : resp'.body[i].success]_vars

----------------------------------------------------------------------------
(* Claims on the unauthenticated endpoints *)

\* C20: without a token GET /api/health is answered 200 with status 'OK' and
\* message 'STMADB Portal Backend is running', GET /api is answered 200 with
\* message 'Welcome to STMADB Portal Backend API' and version '1.0.0', and
\* GET / is answered 200 with message 'STMADB Portal Backend API' and status
\* 'Running'.
C20_OpenEndpoints ==
    [][/\ AnswerHealth =>
             /\ resp'.status = 200
             /\ resp'.body.status = "OK"
             /\ resp'.body.message = "STMADB Portal Backend is running"
       /\ AnswerApi =>
             /\ resp'.status = 200
             /\ resp'.body.message = "Welcome to STMADB Portal Backend API"
             /\ resp'.body.version = "1.0.0"
       /\ AnswerRoot =>
             /\ resp'.status = 200
             /\ resp'.body.message = "STMADB Portal Backend API"
             /\ resp'.body.status = "Running"]_vars

----------------------------------------------------------------------------
(* Claims on student attendance *)

\* the student and the schedule exist and the student's current class is the
\* schedule's class
InScheduledClass(studentId, scheduleId) ==
    \E st \in Students, row \in schedules :
        /\ st.id = BigInt(studentId)
        /\ row.id = BigInt(scheduleId)
        /\ st.current_class_id = row.class_id

\* C21: recordStudentAttendance for an existing student whose current class
\* is the class of the given existing schedule, with no record of the status
\* today, succeeds and adds exactly one record for that student; 'Student
\* does not belong to this class' is the answer only when the classes differ.
C21_StudentOfClassRecorded ==
    [][\A studentId \in IdStrs({st.id : st \in Students}),
          scheduleId \in ScheduleIds, status \in Statuses, t \in Later :
          AnswerRecordStudentAttendance(studentId, Some(scheduleId), status, t)
            => /\ (/\ InScheduledClass(studentId, scheduleId)
                   /\ existingStudentAttendance(BigInt(studentId), status) = {})
                     => /\ resp'.status = 201
                        /\ \E row \in studentAttendance' :
                              /\ row.student_id = BigInt(studentId)
                              /\ studentAttendance' =
                                     studentAttendance \cup {row}
                              /\ row \notin studentAttendance
               /\ resp'.message = "Student does not belong to this class"
                     => ~InScheduledClass(studentId, scheduleId)]_vars

----------------------------------------------------------------------------
(* Claims on the weekly schedule *)

RECURSIVE SumOfLengths(_, _)
SumOfLengths(lists, keys) ==
    IF keys = {} THEN 0
    ELSE LET key == CHOOSE k \in keys : TRUE
         IN  Len(lists[key]) + SumOfLengths(lists, keys \ {key})

\* the places (key, index) of the weekly object that hold the schedule
PlacesOf(lists, row) ==
    {place \in (DOMAIN lists) \X (1 .. MaxId) :
        /\ place[2] <= Len(lists[place[1]])
        /\ lists[place[1]][place[2]].id = toString(row.id)}

\* C22: getWeeklySchedule returns one list per day of the week in which
\* every stored schedule matching the filter appears exactly once, under the
\* key of its own day_of_week, and the list lengths sum to the number of
\* matching schedules.
C22_WeeklyHoldsEverySchedule ==
    [][\A filters \in WeeklyFilters :
          AnswerWeeklySchedule(filters)
            => /\ resp'.status = 200
               /\ Cardinality(DOMAIN resp'.body) = 7
               /\ \A row \in WeeklyMatching(filters) :
                     /\ Cardinality(PlacesOf(resp'.body, row)) = 1
                     /\ \A place \in PlacesOf(resp'.body, row) :
                           resp'.body[place[1]][place[2]].day_of_week
                               = row.day_of_week
               /\ SumOfLengths(resp'.body, DOMAIN resp'.body)
                      = Cardinality(WeeklyMatching(filters))]_vars

----------------------------------------------------------------------------
(* Claims on the check-conflicts endpoint *)

\* createSchedule with the candidate of the body would be rejected
CreateWouldConflict(body) ==
    checkScheduleConflicts(schedules,
        Candidate(BigInt(body.class_id), BigInt(body.teacher_id),
                  body.day_of_week, LocalDate(body.start_time),
                  LocalDate(body.end_time), body.room),
        ABSENT) # "none"

\* C23: the check-conflicts endpoint answers 409 exactly when createSchedule
\* with the same class, teacher, day, times and room on the same state would
\* be rejected for a conflict, 200 otherwise, and never changes the stored
\* schedules.
C23_CheckAgreesWithCreate ==
    [][\A body \in ConflictBodies, framed \in BOOLEAN :
          AnswerCheckConflicts(body, ABSENT, framed)
            => /\ resp'.status = IF CreateWouldConflict(body) THEN 409
                                 ELSE 200
               /\ schedules' = schedules]_vars

----------------------------------------------------------------------------
(* Claims on deactivated accounts *)

\* the accounts that are switched off
Inactive == {u \in tables["user"] : ~u.is_active}

\* the issued tokens of the account
TokensOf(user) == {token \in obs.tokens : token.payload.userId = toString(user.id)}

Fails == resp'.status >= 400 /\ resp'.tokens = {}

----------------------------------------------------------------------------
(* Claims on the deletion of teachers, classes and subjects *)

\* the schedules that refer to the row `id` of a table through `field`
Referring(field, id) == {row \in schedules : row[field] = BigInt(id)}

Enrolled(id) == {st \in Students : st.current_class_id = BigInt(id)}

\* the request was rejected and no table changed
Kept == resp'.status >= 400 /\ tables' = tables

----------------------------------------------------------------------------
(* Claims on the times of a schedule *)

\* C26 as claimed: every schedule stored by createSchedule or updateSchedule
\* has its start_time strictly earlier than its end_time, a request whose
\* end is not after its start being rejected with nothing stored.
C26_StartBeforeEnd ==
    \A row \in schedules : row.start_time < row.end_time

\* C27 as claimed: createSchedule and updateSchedule store the same time of
\* day for the same submitted HH:MM:SS, whatever the timezone offset of the
\* server, so that a schedule written by the one and a schedule written by
\* the other with the same day, teacher and times are found to conflict.
C27_SameStoredTime ==
    \A time \in TimeStrs : DbTime(LocalDate(time)) = DbTime(UTCDate(time))

====
